---- MODULE Spec2Model ----
(***************************************************************************)
(* Occupancy inference of Spot-Smart: the three-state matcher of           *)
(* yolo_detector.py, the overlap matcher of parking_mapper.py and the      *)
(* static feature classifier of parking_detector.py.                      *)
(*                                                                         *)
(* Each analysis is a call on inputs that the caller supplies: Init draws  *)
(* the inputs of one call from bounded sets (pc = "ready"), the action of  *)
(* the operation computes its result as the code does (pc = "done").       *)
(*                                                                         *)
(* Numbers.  Python floats that are quotients of small integers are kept   *)
(* as exact fractions [n |-> numerator, d |-> denominator], d > 0, and     *)
(* compared by cross-multiplication.  For the integers of this model the   *)
(* float comparison against 0.2, 0.3, 0.6 and 1.0 agrees with the exact    *)
(* one: a correctly rounded k/(5k) is the float literal itself, and any    *)
(* other quotient is further than one ulp from the literal.                *)
(***************************************************************************)
EXTENDS FiniteSets, Integers, Sequences, TLC

VARIABLES pc, image_ok,
          yolo_spaces, yolo_cars, yolo_report,
          parking_spaces, detected_cars, mapper_report,
          spots, roi_metrics, detector_report,
          yolo_status, frame_model_cars, frame_contour_cars, frame_mog2_cars, bg_subtractor, hybrid_result,
          lot_total_spaces, video_exists, processor_outcome, processor_results,
          app_result,
          saving_mapper, config_file, save_returned, load_result, resaved_file,
          sample_frames, frames_done, session_pc, session_handle, call_handle, bg_models,
          spot_definitions, saves_done, run_pc, run_spots, run_results, run_report,
          video_width, video_height,
          contours,
          frame_pc, frame_request, frame, temp_frame_file, analysis_results, annotated_image,
          spot_files, detectors, last_saved, entitled, detect_call,
          storage, inserted_ids

vars == <<pc, image_ok, yolo_spaces, yolo_cars, yolo_report,
          parking_spaces, detected_cars, mapper_report,
          spots, roi_metrics, detector_report,
          yolo_status, frame_model_cars, frame_contour_cars, frame_mog2_cars, bg_subtractor, hybrid_result,
          lot_total_spaces, video_exists, processor_outcome, processor_results,
          app_result,
          saving_mapper, config_file, save_returned, load_result, resaved_file,
          sample_frames, frames_done, session_pc, session_handle, call_handle, bg_models,
          spot_definitions, saves_done, run_pc, run_spots, run_results, run_report,
          video_width, video_height,
          contours,
          frame_pc, frame_request, frame, temp_frame_file, analysis_results, annotated_image,
          spot_files, detectors, last_saved, entitled, detect_call,
          storage, inserted_ids>>

yolo_vars == <<yolo_spaces, yolo_cars, yolo_report>>

mapper_vars == <<parking_spaces, detected_cars, mapper_report>>

detector_vars == <<spots, roi_metrics, detector_report>>

fusion_vars == <<yolo_status, frame_model_cars, frame_contour_cars, frame_mog2_cars, bg_subtractor,
                 hybrid_result>>

\* The state of the components of the video and service layer.
app_vars == <<lot_total_spaces, video_exists, processor_outcome, processor_results,
              app_result>>

config_vars == <<saving_mapper, config_file, save_returned, load_result, resaved_file>>

session_vars == <<sample_frames, frames_done, session_pc, session_handle, call_handle,
                  bg_models>>

shared_vars == <<spot_definitions, saves_done, run_pc, run_spots, run_results, run_report>>

\* The arguments of define_parking_spaces_manual.
layout_vars == <<video_width, video_height>>

\* The contours cv2.findContours returns on the mask of a frame.
contours_vars == <<contours>>

\* The calls of analyze_video_frame in progress and the file /tmp/temp_frame.jpg.
temp_frame_vars == <<frame_pc, frame_request, frame, temp_frame_file, analysis_results, annotated_image>>

\* The files config/spots_{lot_id}.json, the ParkingDetector objects, and for each lot the last list saved and the detectors that hold it or were built after it.
store_vars == <<spot_files, detectors, last_saved, entitled, detect_call>>

\* The list self.storage[collection_name] of an InMemoryCollection and the ids its last insert returned.
collection_vars == <<storage, inserted_ids>>

\* The state of the components that stand apart from the calls above.
late_vars == <<layout_vars, contours_vars, temp_frame_vars, store_vars, collection_vars>>

service_vars == <<fusion_vars, app_vars, config_vars, session_vars, shared_vars, late_vars>>

(***************************************************************************)
(* Bounds of the model.                                                    *)
(***************************************************************************)
MaxCoord == 5

MaxCars == 2

MaxSpaces == 2

GridMax == 3

FrameWidth == 4

FrameHeight == 3

MaxSpots == 2

MaxYoloCars == 2

MaxMog2Cars == 2

MaxCarCount == 3

MaxSavedSpaces == 2

MaxSessions == 2

MaxFrames == 2

MaxSaves == 2

\* Frame widths and heights posted to create_parking_spaces, in steps.
MaxWidthSteps == 12

MaxHeightSteps == 12

\* Contours of the mask of one frame.
MaxContours == 2

\* Concurrent requests that call analyze_video_frame.
MaxCalls == 2

\* ParkingDetector objects constructed.
MaxDetectors == 2

\* Documents an InMemoryCollection holds, and documents of one insert_many.
MaxDocuments == 3

MaxBatch == 2

\* The value of a report variable before the call has returned.
NoReport == [pending |-> TRUE]

\* detected_car is None: detections carry the ids 1, 2, ...
NoCar == 0

\* The lot ids: the lot __init__ loads and another lot.
Lots == {"default", "lot_1"}

\* A key that a dict self.spot_definitions does not have.
NoEntry == [absent |-> TRUE]

\* The concurrent calls of analyze_video_frame.
Calls == 1..MaxCalls

\* No frame: a local not yet assigned, a file that does not exist.
NoFrame == [none |-> TRUE]

\* What cv2.imread decodes from a file that another call is rewriting.
TornFrame == [torn |-> TRUE]

(***************************************************************************)
(* Exact fractions standing for the floats of the code.                    *)
(***************************************************************************)
Rat(n, d) == [n |-> n, d |-> d]

Zero == Rat(0, 1)

RatGT(a, b) == a.n * b.d > b.n * a.d

RatEq(a, b) == a.n * b.d = b.n * a.d

RatLE(a, b) == a.n * b.d <= b.n * a.d

\* Python's max(a, b): b only if it is strictly greater than a.
RatMax(a, b) == IF RatGT(b, a) THEN b ELSE a

\* Python's min(a, b): b only if it is strictly smaller than a.
RatMin(a, b) == IF RatGT(a, b) THEN b ELSE a

Max(a, b) == IF b > a THEN b ELSE a

Min(a, b) == IF b < a THEN b ELSE a

\* All sequences over S of length 0..n.
SeqsUpTo(S, n) == UNION {[1..k -> S] : k \in 0..n}

(***************************************************************************)
(* yolo_detector.py: YOLOParkingDetector.  Boxes are [x1, y1, x2, y2].     *)
(***************************************************************************)

\* _calculate_iou(bbox1, bbox2)
_calculate_iou(bbox1, bbox2) ==
    LET inter_x_min == Max(bbox1[1], bbox2[1])
        inter_y_min == Max(bbox1[2], bbox2[2])
        inter_x_max == Min(bbox1[3], bbox2[3])
        inter_y_max == Min(bbox1[4], bbox2[4])
        inter_area  == (inter_x_max - inter_x_min) * (inter_y_max - inter_y_min)
        bbox1_area  == (bbox1[3] - bbox1[1]) * (bbox1[4] - bbox1[2])
        bbox2_area  == (bbox2[3] - bbox2[1]) * (bbox2[4] - bbox2[2])
        union_area  == bbox1_area + bbox2_area - inter_area
    IN  IF inter_x_max < inter_x_min \/ inter_y_max < inter_y_min THEN Zero
        ELSE IF union_area = 0 THEN Zero
        ELSE Rat(inter_area, union_area)

\* _calculate_max_overlap_with_cars(space_bbox, detected_cars)
RECURSIVE MaxOverlapFrom(_, _, _)
MaxOverlapFrom(max_overlap, space_bbox, cars) ==
    IF cars = <<>> THEN max_overlap
    ELSE MaxOverlapFrom(RatMax(max_overlap, _calculate_iou(space_bbox, Head(cars).bbox)),
                        space_bbox, Tail(cars))

_calculate_max_overlap_with_cars(space_bbox, cars) ==
    MaxOverlapFrom(Zero, space_bbox, cars)

\* The if / elif / else of analyze_parking_lot on one overlap ratio.
YoloStatusClosedLow(overlap_ratio) ==
    IF RatGT(overlap_ratio, Rat(6, 10)) THEN "occupied"
    ELSE IF ~RatGT(Rat(2, 10), overlap_ratio) THEN "partially_free"
    ELSE "free"

YoloStatus(overlap_ratio) ==
    IF RatGT(overlap_ratio, Rat(6, 10)) THEN "occupied"
    ELSE IF RatGT(overlap_ratio, Rat(2, 10)) THEN "partially_free"
    ELSE "free"

\* space.copy() with the 'status' key added.
SpaceWithStatus(space, cars) ==
    [id |-> space.id, bbox |-> space.bbox,
     status |-> YoloStatus(_calculate_max_overlap_with_cars(space.bbox, cars))]

RECURSIVE SpacesWithStatus(_, _)
SpacesWithStatus(spaces, cars) ==
    IF spaces = <<>> THEN <<>>
    ELSE <<SpaceWithStatus(Head(spaces), cars)>> \o SpacesWithStatus(Tail(spaces), cars)

\* analyze_parking_lot(image_path, parking_spaces): the returned dict, or the
\* ValueError raised when cv2.imread gives None.
analyze_parking_lot(readable, spaces, cars) ==
    IF ~readable THEN [raised |-> "ValueError"]
    ELSE LET all == SpacesWithStatus(spaces, cars)
             IsOccupied(s) == s.status = "occupied"
             IsPartial(s) == s.status = "partially_free"
             IsFree(s) == s.status = "free"
             occupied_spaces == SelectSeq(all, IsOccupied)
         IN  [detected_cars |-> cars,
              occupied_spaces |-> occupied_spaces,
              free_spaces |-> SelectSeq(all, IsFree),
              partially_free_spaces |-> SelectSeq(all, IsPartial),
              total_spaces |-> Len(spaces),
              occupancy_rate |-> IF spaces # <<>>
                                 THEN Rat(Len(occupied_spaces), Len(spaces))
                                 ELSE Zero]

\* Inputs: the detections of detect_cars (x1 <= x2, y1 <= y2 as the model
\* gives them) and the predefined spaces handed in by the caller: spaces one
\* and two rows high, and one of zero width.
XYXYBoxes == {b \in {0, 1} \X {0} \X (0..MaxCoord) \X {1} : b[1] <= b[3]}

YoloSpaceBoxes == {<<0, 0, 4, 1>>, <<0, 0, 2, 1>>, <<1, 0, 2, 1>>, <<0, 0, 2, 2>>, <<1, 0, 1, 1>>}

\* The i-th element of a list gets the id i (PREDEFINED_PARKING_SPACES ids and
\* the detections of one frame are distinct).
WithIds(boxes) == [i \in 1..Len(boxes) |-> [id |-> i, bbox |-> boxes[i]]]

(***************************************************************************)
(* parking_mapper.py: ParkingMapper.  Boxes are [x, y, w, h].              *)
(***************************************************************************)

\* _calculate_space_overlap(space_coords, car_coords)
SpaceOverlapOfCarArea(space_coords, car_coords) ==
    LET x1 == Max(space_coords[1], car_coords[1])
        y1 == Max(space_coords[2], car_coords[2])
        x2 == Min(space_coords[1] + space_coords[3], car_coords[1] + car_coords[3])
        y2 == Min(space_coords[2] + space_coords[4], car_coords[2] + car_coords[4])
        car_area == car_coords[3] * car_coords[4]
    IN  IF x2 <= x1 \/ y2 <= y1 THEN Zero
        ELSE IF car_area > 0 THEN Rat((x2 - x1) * (y2 - y1), car_area) ELSE Zero

_calculate_space_overlap(space_coords, car_coords) ==
    LET sx == space_coords[1]
        sy == space_coords[2]
        sw == space_coords[3]
        sh == space_coords[4]
        cx == car_coords[1]
        cy == car_coords[2]
        cw == car_coords[3]
        ch == car_coords[4]
        x1 == Max(sx, cx)
        y1 == Max(sy, cy)
        x2 == Min(sx + sw, cx + cw)
        y2 == Min(sy + sh, cy + ch)
        intersection == (x2 - x1) * (y2 - y1)
        space_area == sw * sh
    IN  IF x2 <= x1 \/ y2 <= y1 THEN Zero
        ELSE IF space_area > 0 THEN Rat(intersection, space_area) ELSE Zero

\* car['confidence'] + overlap * 0.3
BoostedConfidence(confidence, overlap) ==
    Rat(confidence.n * overlap.d * 10 + 3 * overlap.n * confidence.d,
        confidence.d * overlap.d * 10)

\* min(1.0, car['confidence'] + overlap * 0.3)
OccupiedConfidenceUncapped(confidence, overlap) ==
    BoostedConfidence(confidence, overlap)

OccupiedConfidence(confidence, overlap) ==
    RatMin(Rat(1, 1), BoostedConfidence(confidence, overlap))

\* check_space_occupancy(frame, space, detected_cars): the loop returns at the
\* first car whose overlap exceeds 0.3.
RECURSIVE check_space_occupancy(_, _)
check_space_occupancy(space, cars) ==
    IF cars = <<>>
    THEN [space_id |-> space.id, occupied |-> FALSE, confidence |-> Rat(8, 10),
          detected_car |-> NoCar, overlap_ratio |-> Zero]
    ELSE LET car == Head(cars)
             overlap == _calculate_space_overlap(space.coordinates, car.bbox)
         IN  IF RatGT(overlap, Rat(3, 10))
             THEN [space_id |-> space.id, occupied |-> TRUE,
                   confidence |-> OccupiedConfidence(car.confidence, overlap),
                   detected_car |-> car.id, overlap_ratio |-> overlap]
             ELSE check_space_occupancy(space, Tail(cars))

\* analyze_parking_occupancy(frame, detected_cars)
analyze_parking_occupancy(spaces, cars) ==
    IF spaces = <<>> THEN [error |-> "No parking spaces defined"]
    ELSE LET occupancy == [i \in 1..Len(spaces) |-> check_space_occupancy(spaces[i], cars)]
             IsOccupied(o) == o.occupied
             IsAvailable(o) == ~o.occupied
             occupied_spaces == SelectSeq(occupancy, IsOccupied)
             available_spaces == SelectSeq(occupancy, IsAvailable)
             total_spaces == Len(spaces)
             occupied_count == Len(occupied_spaces)
         IN  [total_spaces |-> total_spaces,
              occupied_spaces |-> occupied_count,
              available_spaces |-> Len(available_spaces),
              occupancy_rate |-> IF total_spaces > 0
                                 THEN Rat(occupied_count, total_spaces) ELSE Zero,
              occupied_details |-> occupied_spaces,
              available_details |-> available_spaces]

\* Inputs of the mapper: spaces of 4 and 10 cells, a zero-area space inside
\* the frame, and detections that cover 0, 1/10 .. 1 of them.
MapperSpaceBoxes == {<<0, 0, 2, 2>>, <<0, 0, 5, 2>>, <<1, 1, 0, 0>>, <<3, 0, 2, 2>>}

MapperCarBoxes == {<<0, 0, 1, 1>>, <<0, 0, 1, 2>>, <<0, 0, 2, 2>>, <<0, 0, 3, 1>>,
                   <<0, 0, 5, 2>>, <<2, 0, 3, 2>>, <<1, 1, 0, 0>>}

Confidences == {Rat(5, 10), Rat(9, 10)}

GridBoxes == (0..GridMax) \X (0..1) \X (0..GridMax) \X (0..2)

SpaceList(boxes) ==
    [i \in 1..Len(boxes) |-> [id |-> i, coordinates |-> boxes[i]]]

CarList(cs) ==
    [i \in 1..Len(cs) |-> [id |-> i, bbox |-> cs[i][1], confidence |-> cs[i][2]]]

(***************************************************************************)
(* parking_detector.py: ParkingDetector.  Spots are [x, y, w, h] on a      *)
(* frame of FrameWidth x FrameHeight pixels.                               *)
(*                                                                         *)
(* The pixel measurements of a region are inputs, in fixed-point units:    *)
(*   edge_density    in 1/10000     (0.02 is 200, 0.01 is 100)             *)
(*   texture_std     in 1/10        (15 is 150, 10 is 100)                 *)
(*   color_variance  in 1/100       (200 is 20000, 100 is 10000)           *)
(*   avg_brightness, contour_count  as they are                            *)
(*   score, confidence, rates       in 1/100                               *)
(* np.std is the square root of np.var of the same region, so the colour   *)
(* variance is the square of the texture deviation.                        *)
(***************************************************************************)

\* round(n / d, 2) in 1/100: the nearest hundredths.  On an exact tie the
\* float quotient lies on either side of it, so both neighbours are possible.
Round2(n, d) ==
    LET q == (100 * n) \div d
        r == (100 * n) % d
    IN  IF 2 * r < d THEN {q}
        ELSE IF 2 * r > d THEN {q + 1}
        ELSE {q, q + 1}

\* np.var(roi_gray)
color_variance(m) == m.texture_std * m.texture_std

\* len(a[start:stop]) of a numpy axis of n entries, 0 <= start.
SliceLen(start, stop, n) == Max(0, Min(stop, n) - Min(start, n))

\* The metrics of the two early returns.
ZeroMetrics ==
    [edge_density |-> 0, color_variance |-> 0, avg_brightness |-> 0,
     contour_count |-> 0, combined_score |-> 0]

\* Lines 222-263: the score and the factors of a region.
EdgeScore(m) == IF m.edge_density > 200 THEN 35 ELSE 0

ColorScore(m) == IF color_variance(m) > 20000 THEN 30 ELSE 0

BrightnessScore(m) ==
    IF m.avg_brightness < 120 THEN 25
    ELSE IF m.avg_brightness > 140 THEN 15
    ELSE 0

ContourScore(m) == IF m.contour_count > 1 THEN 30 ELSE 0

TextureScore(m) == IF m.texture_std > 150 THEN 20 ELSE 0

\* A count of weak signals in which a fired brightness band is a fourth one.
WeakSignalsWithBrightness(m) ==
    (IF m.edge_density > 100 THEN 1 ELSE 0)
    + (IF m.texture_std * m.texture_std > 10000 THEN 1 ELSE 0)
    + (IF m.avg_brightness < 120 \/ m.avg_brightness > 140 THEN 1 ELSE 0)
    + (IF m.texture_std > 100 THEN 1 ELSE 0)

weak_signals(m) ==
    (IF m.edge_density > 100 THEN 1 ELSE 0)
    + (IF color_variance(m) > 10000 THEN 1 ELSE 0)
    + (IF m.texture_std > 100 THEN 1 ELSE 0)

WeakScoreExactlyTwo(m) == IF weak_signals(m) = 2 THEN 15 ELSE 0

WeakScore(m) == IF weak_signals(m) >= 2 THEN 15 ELSE 0

Score(m) ==
    EdgeScore(m) + ColorScore(m) + BrightnessScore(m) + ContourScore(m)
    + TextureScore(m) + WeakScore(m)

Factors(m) ==
    (IF m.edge_density > 200 THEN <<"edge_detection">> ELSE <<>>)
    \o (IF color_variance(m) > 20000 THEN <<"color_variation">> ELSE <<>>)
    \o (IF m.avg_brightness < 120 THEN <<"shadow_detected">>
        ELSE IF m.avg_brightness > 140 THEN <<"bright_surface">> ELSE <<>>)
    \o (IF m.contour_count > 1 THEN <<"shape_detected">> ELSE <<>>)
    \o (IF m.texture_std > 150 THEN <<"texture_variation">> ELSE <<>>)
    \o (IF weak_signals(m) >= 2 THEN <<"multiple_weak_signals">> ELSE <<>>)

\* Lines 265-271: the verdict on a score.
VerdictAtLeast(score) ==
    IF score >= 25
    THEN [occupied |-> TRUE, confidence |-> Min(score, 100)]
    ELSE [occupied |-> FALSE, confidence |-> 100 - score]

VerdictUncapped(score) ==
    IF score > 25
    THEN [occupied |-> TRUE, confidence |-> score]
    ELSE [occupied |-> FALSE, confidence |-> 100 - score]

Verdict(score) ==
    IF score > 25
    THEN [occupied |-> TRUE, confidence |-> Min(score, 100)]
    ELSE [occupied |-> FALSE, confidence |-> 100 - score]

\* A clipping that moves the origin into the frame and keeps w and h.
ClippedOriginOnly(coordinates) ==
    <<Max(0, Min(coordinates[1], FrameWidth - 1)),
      Max(0, Min(coordinates[2], FrameHeight - 1)), coordinates[3], coordinates[4]>>

\* Lines 155-158: the clipped x, y, w, h.
ClippedRegion(coordinates) ==
    LET x == Max(0, Min(coordinates[1], FrameWidth - 1))
        y == Max(0, Min(coordinates[2], FrameHeight - 1))
        w == Min(coordinates[3], FrameWidth - x)
        h == Min(coordinates[4], FrameHeight - y)
    IN  <<x, y, w, h>>

\* Line 161: the test of the first early return.
InvalidRegionNegative(region) == region[3] < 0 \/ region[4] < 0

InvalidRegion(region) == region[3] <= 0 \/ region[4] <= 0

\* roi_gray.size of gray[y:y+h, x:x+w]
RoiSize(region) ==
    SliceLen(region[2], region[2] + region[4], FrameHeight)
    * SliceLen(region[1], region[1] + region[3], FrameWidth)

\* gray[y:y+h, x:x+w] of lines 178-180: the pixels of the extracted region.
RoiCells(region) ==
    {c \in (0..(FrameWidth - 1)) \X (0..(FrameHeight - 1)) :
        /\ region[1] <= c[1] /\ c[1] < region[1] + region[3]
        /\ region[2] <= c[2] /\ c[2] < region[2] + region[4]}

\* _analyze_single_spot(image, gray, hsv, spot), m the measurements of the
\* region of the spot.
_analyze_single_spot(spot, m) ==
    LET region == ClippedRegion(spot.coordinates)
    IN  IF InvalidRegion(region)
        THEN [id |-> spot.id, coordinates |-> spot.coordinates, occupied |-> FALSE,
              confidence |-> 0, metrics |-> ZeroMetrics,
              detection_factors |-> <<"invalid_coordinates">>]
        ELSE IF RoiSize(region) = 0
        THEN [id |-> spot.id, coordinates |-> spot.coordinates, occupied |-> FALSE,
              confidence |-> 0, metrics |-> ZeroMetrics,
              detection_factors |-> <<"empty_roi">>]
        ELSE [id |-> spot.id, coordinates |-> spot.coordinates,
              occupied |-> Verdict(Score(m)).occupied,
              confidence |-> Verdict(Score(m)).confidence,
              metrics |-> [edge_density |-> m.edge_density,
                           color_variance |-> color_variance(m),
                           avg_brightness |-> m.avg_brightness,
                           contour_count |-> m.contour_count,
                           combined_score |-> Score(m)],
              detection_factors |-> Factors(m)]

RECURSIVE SumConfidence(_)
SumConfidence(analyzed) ==
    IF analyzed = <<>> THEN 0
    ELSE Head(analyzed).confidence + SumConfidence(Tail(analyzed))

\* x, y, w, h = spot['coordinates'] raises on a spot without four coordinates.
Malformed(spot) == Len(spot.coordinates) # 4

\* A loop over the spots that stops after the first one.
AnalyzeFirstSpotOnly(spot_list, metrics) ==
    [i \in 1..Min(1, Len(spot_list)) |-> _analyze_single_spot(spot_list[i], metrics[i])]

\* _analyze_spots(image, spots): the analysed spots; the rounded average
\* confidence is one of Round2(total_confidence, len(spots)).
_analyze_spots(spot_list, metrics) ==
    [i \in 1..Len(spot_list) |-> _analyze_single_spot(spot_list[i], metrics[i])]

\* An error result that carries the message alone.
ErrorReportOnlyMessage(e) == [error |-> e]

\* The dict of the except branch of detect_parking_spaces.
ErrorReport(e) ==
    [error |-> e, total_spots |-> 0, occupied_spots |-> 0, available_spots |-> 0,
     occupancy_rate |-> 0, spots |-> <<>>]

\* detect_parking_spaces(image_path, lot_id): the set of dicts it can return
\* (one, but for the direction of a rounding tie).
detect_parking_spaces(readable, spot_list, metrics) ==
    IF ~readable THEN {ErrorReport("ValueError")}
    ELSE IF \E i \in 1..Len(spot_list) : Malformed(spot_list[i])
    THEN {ErrorReport("KeyError")}
    ELSE LET results == _analyze_spots(spot_list, metrics)
             total_spots == Len(spot_list)
             occupied_spots == Cardinality({i \in 1..Len(results) : results[i].occupied})
             rates == IF total_spots > 0 THEN Round2(occupied_spots, total_spots) ELSE {0}
             confidences == IF spot_list # <<>>
                            THEN Round2(SumConfidence(results), 100 * Len(spot_list))
                            ELSE {0}
         IN  {[total_spots |-> total_spots,
               occupied_spots |-> occupied_spots,
               available_spots |-> total_spots - occupied_spots,
               occupancy_rate |-> rate,
               spots |-> results,
               detection_confidence |-> confidence,
               analysis_method |-> "opencv_multi_feature_analysis"]
              : <<rate, confidence>> \in rates \X confidences}

\* Measurements of a region: below, at and above each threshold of the
\* score.  A region without an edge pixel has no contour.
EdgeDensities == {0, 100, 150, 200, 250}

TextureStds == {50, 100, 120, 145, 150, 160}

Brightnesses == {100, 120, 130, 140, 150}

ContourCounts == {0, 1, 2}

RoiMetrics ==
    {m \in [edge_density : EdgeDensities, texture_std : TextureStds,
            avg_brightness : Brightnesses, contour_count : ContourCounts] :
        m.edge_density = 0 => m.contour_count = 0}

\* A shadowed patch of asphalt (score 0.25) and a car (score 1.55).
ShadowOnly == [edge_density |-> 0, texture_std |-> 50, avg_brightness |-> 100,
               contour_count |-> 0]

CarLike == [edge_density |-> 250, texture_std |-> 160, avg_brightness |-> 100,
            contour_count |-> 2]

\* Spot coordinates inside, across and outside the frame, with widths and
\* heights that are negative, zero and positive; <<>> is a spot without
\* coordinates.
SpotCoordinates ==
    ({-1, 0, FrameWidth} \X {0} \X {-1, 0, 2, FrameWidth + 1} \X {0, 2}) \cup {<<>>}

SpotList(cs) == [i \in 1..Len(cs) |-> [id |-> i, coordinates |-> cs[i]]]

(***************************************************************************)
(* video_processor.py: VideoProcessor.  Boxes are [x, y, w, h]; a          *)
(* detection is a dict of id, bbox, confidence and method.  The            *)
(* confidences drawn below are floats on which the boost and the           *)
(* comparisons of the code agree with exact arithmetic (0.25 * 1.2 and     *)
(* 0.5 * 1.2 are the floats 0.3 and 0.6).                                  *)
(***************************************************************************)
\* _calculate_overlap(bbox1, bbox2): IoU of two boxes.
_calculate_overlap(bbox1, bbox2) ==
    LET x1_1 == bbox1[1]
        y1_1 == bbox1[2]
        w1 == bbox1[3]
        h1 == bbox1[4]
        x2_1 == x1_1 + w1
        y2_1 == y1_1 + h1
        x1_2 == bbox2[1]
        y1_2 == bbox2[2]
        w2 == bbox2[3]
        h2 == bbox2[4]
        x2_2 == x1_2 + w2
        y2_2 == y1_2 + h2
        x1_i == Max(x1_1, x1_2)
        y1_i == Max(y1_1, y1_2)
        x2_i == Min(x2_1, x2_2)
        y2_i == Min(y2_1, y2_2)
        intersection == (x2_i - x1_i) * (y2_i - y1_i)
        union == w1 * h1 + w2 * h2 - intersection
    IN  IF x2_i <= x1_i \/ y2_i <= y1_i THEN Zero
        ELSE IF union > 0 THEN Rat(intersection, union) ELSE Zero

\* detect_cars_yolo(frame): the detections of the model when it is
\* available and its inference returns; the detections of
\* detect_cars_basic when YOLO_AVAILABLE is false or the try block raises.
detect_cars_yolo(status, model_cars, contour_cars) ==
    IF status = "unavailable" THEN contour_cars
    ELSE IF status = "raises" THEN contour_cars
    ELSE model_cars

\* A handle that detect_cars_mog2 was given or created: the background
\* model it names and the number of frames applied to it.
NoHandle == [id |-> 0, applied |-> 0]

\* The id of the subtractor created when the handle passed in is None.
FreshHandle == 1

\* The handle detect_cars_mog2 returns: bg_subtractor, created when it is
\* None, after bg_subtractor.apply(frame).
Mog2Handle(handle) ==
    IF handle = NoHandle THEN [id |-> FreshHandle, applied |-> 1]
    ELSE [handle EXCEPT !.applied = @ + 1]

\* car['confidence'] * 1.2 without the cap.
BoostUncapped(car) ==
    [car EXCEPT !.confidence = Rat(12 * car.confidence.n, 10 * car.confidence.d)]

\* car['confidence'] = car['confidence'] * 1.2; min(1.0, car['confidence'])
Boost(car) ==
    [car EXCEPT !.confidence =
        RatMin(Rat(1, 1), Rat(12 * car.confidence.n, 10 * car.confidence.d))]

\* overlaps: some detection of yolo_cars has IoU > 0.3 with the blob.
Overlaps(mog2_car, yolo_list) ==
    \E k \in 1..Len(yolo_list) :
        RatGT(_calculate_overlap(mog2_car.bbox, yolo_list[k].bbox), Rat(3, 10))

\* The list as it was appended, not sorted.
SortKeepsOrder(cars) == cars

\* The position of car in a list sorted by confidence, descending: after
\* every entry whose confidence is not smaller.
RECURSIVE InsertByConfidence(_, _)
InsertByConfidence(car, sorted) ==
    IF sorted = <<>> THEN <<car>>
    ELSE IF RatGT(car.confidence, Head(sorted).confidence)
    THEN <<car>> \o sorted
    ELSE <<Head(sorted)>> \o InsertByConfidence(car, Tail(sorted))

\* all_cars.sort(key=confidence, reverse=True): stable, entries of equal
\* confidence keep their order.
RECURSIVE SortByConfidence(_)
SortByConfidence(cars) ==
    IF cars = <<>> THEN <<>>
    ELSE InsertByConfidence(cars[Len(cars)], SortByConfidence(SubSeq(cars, 1, Len(cars) - 1)))

\* all_cars before the sort: the boosted detections of detect_cars_yolo,
\* then the blobs that overlap none of them.
all_cars(yolo_list, mog2_cars) ==
    [k \in 1..Len(yolo_list) |-> Boost(yolo_list[k])]
        \o SelectSeq(mog2_cars, LAMBDA mog2_car : ~Overlaps(mog2_car, yolo_list))

\* detect_cars_hybrid(frame, bg_subtractor): the pair it returns.
detect_cars_hybrid(status, model_cars, contour_cars, mog2_cars, handle) ==
    LET yolo_list == detect_cars_yolo(status, model_cars, contour_cars)
    IN  [cars |-> SortByConfidence(all_cars(yolo_list, mog2_cars)),
         bg_subtractor |-> Mog2Handle(handle)]

\* Inputs of a fusion.  Boxes in units of 16 pixels, of a size and aspect
\* ratio that detect_cars_mog2 and detect_cars_basic let through; the blob
\* boxes have IoU 3/10, 4/10, 2/10 and 0 with the first model box.
ModelBoxes == {<<0, 0, 8, 2>>, <<20, 0, 4, 2>>}

BlobBoxes == {<<5, 0, 5, 2>>, <<4, 0, 6, 2>>, <<6, 0, 4, 2>>, <<12, 0, 3, 2>>}

ModelConfidences == {Rat(1, 4), Rat(1, 2), Rat(9, 10)}

BlobConfidences == {Rat(3, 10), Rat(9, 10)}

Detections(method, boxes, confidences, n) ==
    {[k \in 1..Len(ds) |-> [id |-> k, bbox |-> ds[k][1], confidence |-> ds[k][2],
                             method |-> method]]
        : ds \in SeqsUpTo(boxes \X confidences, n)}

(***************************************************************************)
(* app.py: analyze_parking_video, the route /api/parking/analyze-video.    *)
(* The request names an existing lot and a video file name of an allowed   *)
(* type; the processor is YOLOVideoProcessor.analyze_video_frame.          *)
(***************************************************************************)
\* car_count of the mock data.
MockCarCount == 45

\* analysis_data['detection_data']['method']
DetectionMethod == "YOLOv8"

\* analyze_parking_video: the responses it can return (one, but for the
\* direction of a rounding tie) with the analysis it logged before; the
\* occupancy_rate is a percentage in 1/100.
analyze_parking_video(total_spaces, exists, outcome, results) ==
    LET mock == ~exists \/ outcome # "ok"
        car_count == IF mock THEN MockCarCount ELSE results.car_count
        available_spaces == IF mock THEN total_spaces - MockCarCount
                            ELSE results.parking_analysis.available_spaces
        analysis_data == [total_spaces |-> total_spaces,
                          occupied_spaces |-> car_count,
                          available_spaces |-> available_spaces,
                          detection_data |-> [method |-> DetectionMethod]]
    IN  IF total_spaces = 0
        THEN {[response |-> [status |-> 500, error |-> "ZeroDivisionError"],
               logged |-> analysis_data]}
        ELSE {[response |-> [status |-> 200,
                             success |-> TRUE,
                             car_count |-> car_count,
                             parking_analysis |->
                                 [available_spaces |-> available_spaces,
                                  total_spaces |-> total_spaces,
                                  occupancy_rate |-> rate]],
               logged |-> analysis_data]
              : rate \in Round2(100 * car_count, total_spaces)}

\* Lots: create_parking_lot stores the total_spaces of the request as it is.
LotSizes == {0, 40, 45, 100}

\* What analyze_video_frame returns when it returns.
ProcessorResults ==
    {[car_count |-> c, parking_analysis |-> [available_spaces |-> a]]
        : c \in 0..MaxCarCount, a \in 0..MaxCarCount}

(***************************************************************************)
(* parking_mapper.py: save_parking_spaces and load_parking_spaces.         *)
(* A Python value is tagged with its type: [int |-> n], [float |-> k] (the *)
(* float k / 2), [str |-> s], [list |-> items], [dict |-> pairs], the      *)
(* pairs <<key, value>> in insertion order.  The text of the file is the   *)
(* JSON value json.dump writes: [number |-> n], [real |-> k],              *)
(* [string |-> s], [array |-> items], [object |-> members].                *)
(***************************************************************************)
PyInt(n) == [int |-> n]

PyFloat(k) == [float |-> k]

PyStr(s) == [str |-> s]

PyList(items) == [list |-> items]

PyDict(pairs) == [dict |-> pairs]

\* d[key] of a dict that has the key; d.get(key, default).
PyItem(d, key) ==
    LET k == CHOOSE i \in 1..Len(d.dict) :
                 d.dict[i][1] = key /\ \A j \in (i + 1)..Len(d.dict) : d.dict[j][1] # key
    IN  d.dict[k][2]

PyGet(d, key, default) ==
    IF \E i \in 1..Len(d.dict) : d.dict[i][1] = key THEN PyItem(d, key) ELSE default

\* json.dump(value): the JSON text of a Python value.
RECURSIVE json_dump(_)
json_dump(value) ==
    IF "int" \in DOMAIN value THEN [number |-> value.int]
    ELSE IF "float" \in DOMAIN value THEN [real |-> value.float]
    ELSE IF "str" \in DOMAIN value THEN [string |-> value.str]
    ELSE IF "list" \in DOMAIN value
    THEN [array |-> [i \in 1..Len(value.list) |-> json_dump(value.list[i])]]
    ELSE [object |-> [i \in 1..Len(value.dict) |->
                         <<value.dict[i][1], json_dump(value.dict[i][2])>>]]

\* json.load(f): the Python value of a JSON text.
RECURSIVE json_load(_)
json_load(text) ==
    IF "number" \in DOMAIN text THEN PyInt(text.number)
    ELSE IF "real" \in DOMAIN text THEN PyFloat(text.real)
    ELSE IF "string" \in DOMAIN text THEN PyStr(text.string)
    ELSE IF "array" \in DOMAIN text
    THEN PyList([i \in 1..Len(text.array) |-> json_load(text.array[i])])
    ELSE PyDict([i \in 1..Len(text.object) |->
                    <<text.object[i][1], json_load(text.object[i][2])>>])

\* No file at config_file.
NoFile == [missing |-> TRUE]

\* ParkingMapper.__init__
NewMapper == [parking_spaces |-> PyList(<<>>),
              video_width |-> PyInt(1280),
              video_height |-> PyInt(720)]

\* save_parking_spaces(config_file): the value returned and the file left.
save_parking_spaces(mapper) ==
    LET config == PyDict(<< <<"video_width", mapper.video_width>>,
                            <<"video_height", mapper.video_height>>,
                            <<"total_spaces", PyInt(Len(mapper.parking_spaces.list))>>,
                            <<"parking_spaces", mapper.parking_spaces>> >>)
    IN  [returned |-> TRUE, file |-> json_dump(config)]

\* A load that leaves the dimensions of the new mapper as they are.
LoadSpacesOnly(mapper, file) ==
    IF file = NoFile THEN [returned |-> FALSE, mapper |-> mapper]
    ELSE [returned |-> TRUE,
          mapper |-> [mapper EXCEPT
                         !.parking_spaces =
                             PyGet(json_load(file), "parking_spaces", PyList(<<>>))]]

\* load_parking_spaces(config_file): the value returned and the mapper left.
load_parking_spaces(mapper, file) ==
    IF file = NoFile THEN [returned |-> FALSE, mapper |-> mapper]
    ELSE LET config == json_load(file)
         IN  [returned |-> TRUE,
              mapper |-> [parking_spaces |-> PyGet(config, "parking_spaces", PyList(<<>>)),
                          video_width |-> PyGet(config, "video_width", PyInt(1280)),
                          video_height |-> PyGet(config, "video_height", PyInt(720))]]

\* A space dict as define_parking_spaces_manual builds it.
Space(id, coordinates, row, position) ==
    PyDict(<< <<"id", PyStr(id)>>,
              <<"coordinates", PyList([i \in 1..4 |-> PyInt(coordinates[i])])>>,
              <<"row", row>>,
              <<"position", PyInt(position)>> >>)

\* Spaces of the first row, the second row and the two sides.
DefinedSpaces ==
    {Space("row1_space_1", <<40, 80, 65, 120>>, PyInt(1), 1),
     Space("row2_space_2", <<128, 220, 70, 140>>, PyInt(2), 2),
     Space("left_side_space_1", <<15, 250, 50, 40>>, PyStr("left"), 1),
     Space("right_side_space_1", <<1215, 250, 50, 40>>, PyStr("right"), 1)}

\* Widths and heights of a video or of a request: ints and a float.
VideoWidths == {PyInt(1280), PyInt(640), PyFloat(2561)}

VideoHeights == {PyInt(720), PyInt(480)}

\* The states of a mapper that save_parking_spaces is called in.
MapperStates ==
    {[parking_spaces |-> PyList(s), video_width |-> w, video_height |-> h]
        : s \in SeqsUpTo(DefinedSpaces, MaxSavedSpaces), w \in VideoWidths,
          h \in VideoHeights}

\* A configuration written by an earlier request.
EarlierFile == save_parking_spaces(NewMapper).file

(***************************************************************************)
(* video_routes.py, parking_analysis_routes.py: the background loop of a   *)
(* request,                                                                *)
(*     bg_subtractor = None                                                *)
(*     for frame in sample_frames:                                         *)
(*         _, bg_subtractor = processor.detect_cars_mog2(frame, ...)      *)
(* run by concurrent requests (sessions).  The subtractors that exist are  *)
(* the entries of bg_models; a handle is the index of one, 0 is None.      *)
(***************************************************************************)
Sessions == 1..MaxSessions

\* A module-level subtractor that every call would use.
SharedSubtractor(models) == 1

\* cv2.createBackgroundSubtractorMOG2(...): a subtractor that did not exist.
createBackgroundSubtractorMOG2(models) == Len(models) + 1

\* The subtractor as session s creates it, and after s applied a frame.
CreatedBy(s) == [created_by |-> s, observers |-> {}, applied |-> 0]

Applied(model, s) ==
    [model EXCEPT !.observers = @ \cup {s}, !.applied = @ + 1]

(***************************************************************************)
(* parking_routes.py: the module-level detector = ParkingDetector() that   *)
(* the requests share.  A detect_parking_spaces run proceeds while         *)
(* define_parking_spots requests call save_spot_definitions for the same   *)
(* lot.  A list of spots carries the number of the save that brought it    *)
(* (0: the default spots); the dict access and the assignment of the code  *)
(* are atomic steps of the interpreter.                                    *)
(***************************************************************************)
\* The list of n spots that save number v brings.
SpotsOfSave(v, n) == [i \in 1..n |-> [id |-> i, saved_by |-> v]]

\* self._get_default_spots(), in short.
DefaultSpots == SpotsOfSave(0, MaxSpots)

\* A run that counts the list the detector holds when the run ends.
CountsCurrentList(run_list, current_list) == Len(current_list)

\* total_spots = len(spots): the list the run fetched.
total_spots_of(run_list, current_list) == Len(run_list)

\* The result of _analyze_single_spot for a spot, as far as it names it.
AnalyzedSpot(spot, occupied) ==
    [id |-> spot.id, saved_by |-> spot.saved_by, occupied |-> occupied]

(***************************************************************************)
(* parking_mapper.py: define_parking_spaces_manual, in pixels.  An id      *)
(* f'row1_space_{i+1}' is the pair <<"row1_space", i + 1>>; the row is an  *)
(* int for the four rows and a str for the two sides.                      *)
(***************************************************************************)
\* for i in range(count): x = x0 + i * pitch; if x + width <= video_width - margin.
RowSpaces(name, row, count, x0, pitch, width, y, height, margin, width_arg) ==
    LET space(i) == [id |-> <<name, i + 1>>,
                     coordinates |-> <<x0 + i * pitch, y, width, height>>,
                     row |-> [int |-> row], position |-> i + 1]
        Kept(s) == s.coordinates[1] + width <= width_arg - margin
    IN  SelectSeq([k \in 1..count |-> space(k - 1)], Kept)

\* for i in range(count): y = 250 + i * 45; if y + 40 <= video_height - 50.
SideSpaces(name, row, count, x, height_arg) ==
    LET space(i) == [id |-> <<name, i + 1>>,
                     coordinates |-> <<x, 250 + i * 45, 50, 40>>,
                     row |-> [str |-> row], position |-> i + 1]
        Kept(s) == s.coordinates[2] + 40 <= height_arg - 50
    IN  SelectSeq([k \in 1..count |-> space(k - 1)], Kept)

\* define_parking_spaces_manual(video_width, video_height): self.parking_spaces.
define_parking_spaces_manual(width_arg, height_arg) ==
    RowSpaces("row1_space", 1, 18, 40, 65 + 5, 65, 80, 120, 40, width_arg)
    \o RowSpaces("row2_space", 2, 16, 50, 70 + 8, 70, 220, 140, 50, width_arg)
    \o RowSpaces("row3_space", 3, 15, 70, 75 + 10, 75, 380, 150, 70, width_arg)
    \o RowSpaces("row4_space", 4, 14, 100, 85 + 12, 85, 550, 130, 100, width_arg)
    \o SideSpaces("left_side_space", "left", 8, 15, height_arg)
    \o SideSpaces("right_side_space", "right", 7, width_arg - 65, height_arg)

\* The frame sizes a client posts to create_parking_spaces: one pixel, and
\* multiples of 160 by 120 that include 640x480, 1280x720 and 1920x1080.
WidthStep == 160

HeightStep == 120

FrameWidthInputs == {1} \cup {k * WidthStep : k \in 1..MaxWidthSteps}

FrameHeightInputs == {1} \cup {k * HeightStep : k \in 1..MaxHeightSteps}

(***************************************************************************)
(* video_processor.py: the contour filter of detect_cars_mog2, in pixels.  *)
(* A contour is its area, its bounding rectangle and the area of its       *)
(* convex hull; an id f'mog2_car_{i}' is the pair <<"mog2_car", i>>.       *)
(***************************************************************************)
RECURSIVE Gcd(_, _)
Gcd(a, b) == IF b = 0 THEN a ELSE Gcd(b, a % b)

\* area / cv2.contourArea(cv2.convexHull(contour)), 0 for an empty hull
solidity(contour) ==
    IF contour.hull_area > 0 THEN Rat(contour.area, contour.hull_area) ELSE Zero

\* solidity * 0.8 + (area / max_contour_area) * 0.2, in lowest terms
BlendedConfidence(contour) ==
    LET s == solidity(contour)
        n == 60000 * s.n + contour.area * s.d
        d == 75000 * s.d
        g == Gcd(n, d)
    IN  Rat(n \div g, d \div g)

\* A confidence that is the blend as it is, without the clamp.
UnclampedConfidence(contour) == BlendedConfidence(contour)

\* min(0.9, max(0.3, ...))
ClampedConfidence(contour) ==
    RatMin(Rat(9, 10), RatMax(Rat(3, 10), BlendedConfidence(contour)))

\* Lines 193-201: the area, aspect-ratio and size tests.
min_contour_area == 800

max_contour_area == 15000

PassesFilters(area, w, h) ==
    /\ min_contour_area < area /\ area < max_contour_area
    /\ IF h > 0 THEN 3 * h < 10 * w /\ w < 5 * h ELSE FALSE
    /\ w > 25 /\ h > 15

\* detect_cars_mog2(frame, bg_subtractor): detected_cars for the contours of
\* the cleaned mask.
detect_cars_mog2(contour_list) ==
    LET Detection(i) ==
            LET contour == contour_list[i + 1]
                b == contour.bbox
            IN  [id |-> <<"mog2_car", i>>, bbox |-> b,
                 confidence |-> ClampedConfidence(contour),
                 center |-> <<b[1] + (b[3] \div 2), b[2] + (b[4] \div 2)>>,
                 area |-> contour.area, method |-> "mog2",
                 solidity |-> solidity(contour)]
        Kept(d) == PassesFilters(d.area, d.bbox[3], d.bbox[4])
    IN  SelectSeq([k \in 1..Len(contour_list) |-> Detection(k - 1)], Kept)

\* Contours at and next to each limit of the filters: bounding rectangles
\* 25 and 26 wide, 15 and 16 high, of aspect ratio 0.3, 0.31, 4.95 and 5.0,
\* and areas 800, 801, 14999 and 15000; the hull is the contour itself or
\* fills the rectangle.
ContourRectangles ==
    {<<25, 40>>, <<26, 40>>, <<60, 15>>, <<60, 16>>, <<30, 100>>, <<31, 100>>,
     <<100, 20>>, <<99, 20>>, <<150, 120>>}

ContourAreas == {800, 801, 14999, 15000}

Contours ==
    {[area |-> a, bbox |-> <<10, 20, r[1], r[2]>>, hull_area |-> hull] :
        <<a, r, hull>> \in {t \in ContourAreas \X ContourRectangles \X (1..18000) :
                               /\ t[1] <= t[2][1] * t[2][2]
                               /\ t[3] \in {t[1], t[2][1] * t[2][2]}}}

(***************************************************************************)
(* yolo_video_processor.py: analyze_video_frame.  Every call writes the    *)
(* frame it extracted to the path '/tmp/temp_frame.jpg' and the detector   *)
(* reads that path twice.  A frame is named by the request that extracted  *)
(* it; the file holds the last image written in full and the set of calls  *)
(* that are writing it.                                                    *)
(***************************************************************************)
\* cap.set(cv2.CAP_PROP_POS_FRAMES, frame_number); ret, frame = cap.read()
extract_frame(video_path, frame_number) ==
    [video_path |-> video_path, frame_number |-> frame_number]

\* cv2.imread(image_path): the image of the file, and while a call is
\* rewriting the file, nothing (None) or a partly written image as well.
imread(file) ==
    IF file.writers = {} THEN {file.image}
    ELSE {file.image, NoFrame, TornFrame}

\* The requests: two videos and two frame numbers.
VideoPaths == {"lot_a.mp4", "lot_b.mp4"}

FrameNumbers == {0, 1}

(***************************************************************************)
(* parking_detector.py: the spot definitions of a lot, in the dict         *)
(* self.spot_definitions of each ParkingDetector and in the files          *)
(* config/spots_{lot_id}.json.  Spot lists are Python values.              *)
(***************************************************************************)
\* A spot dict as _get_default_spots builds it.
SpotDict(id, coordinates, row) ==
    PyDict(<< <<"id", PyStr(id)>>,
              <<"coordinates", PyList([i \in 1..4 |-> PyInt(coordinates[i])])>>,
              <<"row", PyStr(row)>> >>)

\* self._get_default_spots(), its first two spots.
default_spots ==
    PyList(<<SpotDict("row1_spot_1", <<10, 15, 34, 75>>, "row1"),
             SpotDict("row1_spot_2", <<44, 15, 34, 75>>, "row1")>>)

\* load_spot_definitions(lot_id='default'): the entry it assigns.
load_spot_definitions(files, lot_id) ==
    IF files[lot_id] # NoFile THEN json_load(files[lot_id]) ELSE default_spots

\* ParkingDetector(): self.spot_definitions after __init__.
NewDetector(files) ==
    [lot_id \in Lots |->
        IF lot_id = "default" THEN load_spot_definitions(files, "default") ELSE NoEntry]

\* self.spot_definitions.get(lot_id, self._get_default_spots())
spots_of_lot(definitions, lot_id) ==
    IF definitions[lot_id] # NoEntry THEN definitions[lot_id] ELSE default_spots

\* The lists a client saves: one spot, and two spots.
SavedSpotLists ==
    {PyList(<<SpotDict("a1", <<0, 0, 40, 80>>, "a")>>),
     PyList(<<SpotDict("b1", <<0, 0, 30, 60>>, "b"),
              SpotDict("b2", <<30, 0, 30, 60>>, "b")>>)}

(***************************************************************************)
(* mongodb_config.py: InMemoryCollection.  A document is a dict with the   *)
(* keys _id and name; the documents inserted carry no _id.  A str of       *)
(* digits is the sequence of its digits.                                   *)
(***************************************************************************)
\* str(n) of an int n >= 0
RECURSIVE str(_)
str(n) == IF n < 10 THEN <<n>> ELSE Append(str(n \div 10), n % 10)

\* document['_id'] = str(len(self.storage[self.collection_name]) + 1)
generated_id(stored) == str(Len(stored) + 1)

\* insert_one(document) of a document without _id: the list it leaves.
insert_one(stored, name) ==
    Append(stored, [_id |-> generated_id(stored), name |-> name])

\* insert_many(documents): one insert per document, in order.
RECURSIVE insert_many(_, _)
insert_many(stored, names) ==
    IF names = <<>> THEN stored
    ELSE insert_many(insert_one(stored, Head(names)), Tail(names))

\* _matches_query(doc, query) for a query {key: value}
_matches_query(doc, query) == doc[query.key] = query.value

\* delete_one(query): the list without the first document that matches.
delete_one(stored, query) ==
    IF \E i \in 1..Len(stored) : _matches_query(stored[i], query)
    THEN LET i == CHOOSE k \in 1..Len(stored) :
                      /\ _matches_query(stored[k], query)
                      /\ \A j \in 1..(k - 1) : ~_matches_query(stored[j], query)
         IN  [k \in 1..(Len(stored) - 1) |-> IF k < i THEN stored[k] ELSE stored[k + 1]]
    ELSE stored

\* The names of the documents and the queries of delete_one.
DocumentNames == {"lot", "spot"}

Queries ==
    {[key |-> "name", value |-> n] : n \in DocumentNames}
    \cup {[key |-> "_id", value |-> str(k)] : k \in 1..MaxDocuments}

(***************************************************************************)
(* Specifications.                                                         *)
(***************************************************************************)
YoloIdle == yolo_spaces = <<>> /\ yolo_cars = <<>> /\ yolo_report = NoReport

MapperIdle == parking_spaces = <<>> /\ detected_cars = <<>> /\ mapper_report = NoReport

DetectorIdle == spots = <<>> /\ roi_metrics = <<>> /\ detector_report = NoReport

FusionIdle ==
    /\ yolo_status = "ok"
    /\ frame_model_cars = <<>>
    /\ frame_contour_cars = <<>>
    /\ frame_mog2_cars = <<>>
    /\ bg_subtractor = NoHandle
    /\ hybrid_result = NoReport

AppIdle ==
    /\ lot_total_spaces = 0
    /\ video_exists = FALSE
    /\ processor_outcome = "ok"
    /\ processor_results = NoReport
    /\ app_result = NoReport

ConfigIdle ==
    /\ saving_mapper = NewMapper
    /\ config_file = NoFile
    /\ save_returned = FALSE
    /\ load_result = NoReport
    /\ resaved_file = NoFile

SessionsIdle ==
    /\ sample_frames = [s \in Sessions |-> 0]
    /\ frames_done = [s \in Sessions |-> 0]
    /\ session_pc = [s \in Sessions |-> "loop"]
    /\ session_handle = [s \in Sessions |-> 0]
    /\ call_handle = [s \in Sessions |-> 0]
    /\ bg_models = <<>>

SharedIdle ==
    /\ spot_definitions = DefaultSpots
    /\ saves_done = 0
    /\ run_pc = "start"
    /\ run_spots = <<>>
    /\ run_results = <<>>
    /\ run_report = NoReport

LayoutIdle == video_width = 1280 /\ video_height = 720

ContoursIdle == contours = <<>>

\* No call of analyze_video_frame has started and the temporary file is absent.
TempFrameIdle ==
    /\ frame_pc = [c \in Calls |-> "start"]
    /\ frame_request = [c \in Calls |-> NoFrame]
    /\ frame = [c \in Calls |-> NoFrame]
    /\ temp_frame_file = [image |-> NoFrame, writers |-> {}]
    /\ analysis_results = [c \in Calls |-> NoFrame]
    /\ annotated_image = [c \in Calls |-> NoFrame]

\* No detector of the store has been constructed and no file written.
StoreIdle ==
    /\ spot_files = [lot_id \in Lots |-> NoFile]
    /\ detectors = <<>>
    /\ last_saved = [lot_id \in Lots |-> NoEntry]
    /\ entitled = [lot_id \in Lots |-> {}]
    /\ detect_call = NoReport

\* InMemoryCollection.__init__: self.storage[collection_name] = []
CollectionIdle == storage = <<>> /\ inserted_ids = <<>>

\* Every component of late_vars but the one named c is at rest.
LateIdleBut(c) ==
    /\ IF c = "layout" THEN TRUE ELSE LayoutIdle
    /\ IF c = "contours" THEN TRUE ELSE ContoursIdle
    /\ IF c = "temp_frame" THEN TRUE ELSE TempFrameIdle
    /\ IF c = "store" THEN TRUE ELSE StoreIdle
    /\ IF c = "collection" THEN TRUE ELSE CollectionIdle

LateUnchangedBut(c) ==
    /\ IF c = "layout" THEN TRUE ELSE UNCHANGED layout_vars
    /\ IF c = "contours" THEN TRUE ELSE UNCHANGED contours_vars
    /\ IF c = "temp_frame" THEN TRUE ELSE UNCHANGED temp_frame_vars
    /\ IF c = "store" THEN TRUE ELSE UNCHANGED store_vars
    /\ IF c = "collection" THEN TRUE ELSE UNCHANGED collection_vars

LateIdle == LateIdleBut("none")

\* The calls of the first three components and of the service layer at rest.
CoreIdle ==
    /\ YoloIdle /\ MapperIdle /\ DetectorIdle
    /\ FusionIdle /\ AppIdle /\ ConfigIdle /\ SessionsIdle /\ SharedIdle

core_vars == <<yolo_vars, mapper_vars, detector_vars, fusion_vars, app_vars, config_vars,
               session_vars, shared_vars>>

ServiceIdle ==
    FusionIdle /\ AppIdle /\ ConfigIdle /\ SessionsIdle /\ SharedIdle /\ LateIdle

InitYolo ==
    /\ pc = "ready"
    /\ image_ok \in BOOLEAN
    /\ \E boxes \in SeqsUpTo(YoloSpaceBoxes, MaxSpaces) : yolo_spaces = WithIds(boxes)
    /\ \E boxes \in SeqsUpTo(XYXYBoxes, MaxCars) : yolo_cars = WithIds(boxes)
    /\ yolo_report = NoReport
    /\ MapperIdle
    /\ DetectorIdle
    /\ ServiceIdle

AnalyzeParkingLot ==
    /\ pc = "ready"
    /\ yolo_report' = analyze_parking_lot(image_ok, yolo_spaces, yolo_cars)
    /\ pc' = "done"
    /\ UNCHANGED <<image_ok, yolo_spaces, yolo_cars, mapper_vars, detector_vars, service_vars>>

NextYolo == AnalyzeParkingLot

SpecYolo == InitYolo /\ [][NextYolo]_vars

InitMapper ==
    /\ pc = "ready"
    /\ image_ok = TRUE
    /\ \E boxes \in SeqsUpTo(MapperSpaceBoxes, MaxSpaces) : parking_spaces = SpaceList(boxes)
    /\ \E cs \in SeqsUpTo(MapperCarBoxes \X Confidences, MaxCars) : detected_cars = CarList(cs)
    /\ mapper_report = NoReport
    /\ YoloIdle
    /\ DetectorIdle
    /\ ServiceIdle

\* One space and one detection over the whole grid of boxes.
InitMapperGrid ==
    /\ pc = "ready"
    /\ image_ok = TRUE
    /\ \E b \in GridBoxes : parking_spaces = SpaceList(<<b>>)
    /\ \E b \in GridBoxes : detected_cars = CarList(<<<<b, Rat(9, 10)>>>>)
    /\ mapper_report = NoReport
    /\ YoloIdle
    /\ DetectorIdle
    /\ ServiceIdle

AnalyzeParkingOccupancy ==
    /\ pc = "ready"
    /\ mapper_report' = analyze_parking_occupancy(parking_spaces, detected_cars)
    /\ pc' = "done"
    /\ UNCHANGED <<image_ok, parking_spaces, detected_cars, yolo_vars, detector_vars, service_vars>>

NextMapper == AnalyzeParkingOccupancy

SpecMapper == InitMapper /\ [][NextMapper]_vars

SpecMapperGrid == InitMapperGrid /\ [][NextMapper]_vars

InitDetector ==
    /\ pc = "ready"
    /\ image_ok \in BOOLEAN
    /\ \E cs \in SeqsUpTo(SpotCoordinates, MaxSpots) : spots = SpotList(cs)
    /\ roi_metrics \in [1..Len(spots) -> {ShadowOnly, CarLike}]
    /\ detector_report = NoReport
    /\ YoloIdle
    /\ MapperIdle
    /\ ServiceIdle

\* Two regions inside the frame, with every pair of measurements.
InitClassifier ==
    /\ pc = "ready"
    /\ image_ok = TRUE
    /\ spots = SpotList(<<<<0, 0, 2, 2>>, <<2, 0, 2, 2>>>>)
    /\ roi_metrics \in [1..2 -> RoiMetrics]
    /\ detector_report = NoReport
    /\ YoloIdle
    /\ MapperIdle
    /\ ServiceIdle

DetectParkingSpaces ==
    /\ pc = "ready"
    /\ detector_report' \in detect_parking_spaces(image_ok, spots, roi_metrics)
    /\ pc' = "done"
    /\ UNCHANGED <<image_ok, spots, roi_metrics, yolo_vars, mapper_vars, service_vars>>

NextDetector == DetectParkingSpaces

SpecDetector == InitDetector /\ [][NextDetector]_vars

SpecClassifier == InitClassifier /\ [][NextDetector]_vars

\* The detections detect_cars_basic returns when it stands in for the model.
ContourBoxes == {<<2, 0, 6, 2>>}

ContourConfidences == {Rat(3, 10), Rat(1, 2)}

\* A handle returned by an earlier detect_cars_mog2 call of the request.
EarlierHandle == [id |-> 2, applied |-> 1]

\* One call of detect_cars_hybrid: the model is available and returns, is
\* not installed, or raises during inference.
InitFusion ==
    /\ pc = "ready"
    /\ image_ok = TRUE
    /\ yolo_status \in {"ok", "unavailable", "raises"}
    /\ frame_model_cars \in (IF yolo_status = "ok"
                       THEN Detections("yolo", ModelBoxes, ModelConfidences, MaxYoloCars)
                       ELSE {<<>>})
    /\ frame_contour_cars \in (IF yolo_status = "ok"
                         THEN {<<>>}
                         ELSE Detections("basic", ContourBoxes, ContourConfidences,
                                         MaxYoloCars))
    /\ frame_mog2_cars \in Detections("mog2", BlobBoxes, BlobConfidences, MaxMog2Cars)
    /\ bg_subtractor \in {NoHandle, EarlierHandle}
    /\ hybrid_result = NoReport
    /\ YoloIdle
    /\ MapperIdle
    /\ DetectorIdle
    /\ AppIdle
    /\ ConfigIdle
    /\ SessionsIdle
    /\ SharedIdle
    /\ LateIdle

DetectCarsHybrid ==
    /\ pc = "ready"
    /\ hybrid_result' = detect_cars_hybrid(yolo_status, frame_model_cars, frame_contour_cars,
                                           frame_mog2_cars, bg_subtractor)
    /\ pc' = "done"
    /\ UNCHANGED <<image_ok, yolo_status, frame_model_cars, frame_contour_cars, frame_mog2_cars,
                   bg_subtractor, yolo_vars, mapper_vars, detector_vars, app_vars,
                   config_vars, session_vars,
                   shared_vars, late_vars>>

NextFusion == DetectCarsHybrid

SpecFusion == InitFusion /\ [][NextFusion]_vars

\* One request: the video is on disk or not; the processor returns, cannot
\* be constructed, or raises.
InitApp ==
    /\ pc = "ready"
    /\ image_ok = TRUE
    /\ lot_total_spaces \in LotSizes
    /\ video_exists \in BOOLEAN
    /\ processor_outcome \in (IF video_exists THEN {"ok", "unavailable", "raises"}
                              ELSE {"ok"})
    /\ processor_results \in (IF video_exists /\ processor_outcome = "ok"
                              THEN ProcessorResults
                              ELSE {NoReport})
    /\ app_result = NoReport
    /\ YoloIdle
    /\ MapperIdle
    /\ DetectorIdle
    /\ FusionIdle
    /\ ConfigIdle
    /\ SessionsIdle
    /\ SharedIdle
    /\ LateIdle

AnalyzeParkingVideo ==
    /\ pc = "ready"
    /\ app_result' \in analyze_parking_video(lot_total_spaces, video_exists,
                                             processor_outcome, processor_results)
    /\ pc' = "done"
    /\ UNCHANGED <<image_ok, lot_total_spaces, video_exists, processor_outcome,
                   processor_results, yolo_vars, mapper_vars, detector_vars,
                   fusion_vars, config_vars, session_vars,
                   shared_vars, late_vars>>

NextApp == AnalyzeParkingVideo

SpecApp == InitApp /\ [][NextApp]_vars

\* A mapper with spaces, and a configuration file that is not there yet or
\* was written by an earlier request.
InitConfig ==
    /\ pc = "ready"
    /\ image_ok = TRUE
    /\ saving_mapper \in MapperStates
    /\ config_file \in {NoFile, EarlierFile}
    /\ save_returned = FALSE
    /\ load_result = NoReport
    /\ resaved_file = NoFile
    /\ YoloIdle
    /\ MapperIdle
    /\ DetectorIdle
    /\ FusionIdle
    /\ AppIdle
    /\ SessionsIdle
    /\ SharedIdle
    /\ LateIdle

\* mapper.save_parking_spaces(config_file)
SaveParkingSpaces ==
    /\ pc = "ready"
    /\ save_returned' = save_parking_spaces(saving_mapper).returned
    /\ config_file' = save_parking_spaces(saving_mapper).file
    /\ pc' = "saved"
    /\ UNCHANGED <<image_ok, saving_mapper, load_result, resaved_file,
                   yolo_vars, mapper_vars, detector_vars, fusion_vars, app_vars,
                   session_vars,
                   shared_vars, late_vars>>

\* mapper2 = ParkingMapper(); mapper2.load_parking_spaces(config_file)
LoadParkingSpaces ==
    /\ pc = "saved"
    /\ load_result' = load_parking_spaces(NewMapper, config_file)
    /\ pc' = "loaded"
    /\ UNCHANGED <<image_ok, saving_mapper, config_file, save_returned, resaved_file,
                   yolo_vars, mapper_vars, detector_vars, fusion_vars, app_vars,
                   session_vars,
                   shared_vars, late_vars>>

\* mapper2.save_parking_spaces(...): what the loaded mapper writes.
SaveLoadedMapper ==
    /\ pc = "loaded"
    /\ resaved_file' = save_parking_spaces(load_result.mapper).file
    /\ pc' = "done"
    /\ UNCHANGED <<image_ok, saving_mapper, config_file, save_returned, load_result,
                   yolo_vars, mapper_vars, detector_vars, fusion_vars, app_vars,
                   session_vars,
                   shared_vars, late_vars>>

NextConfig == SaveParkingSpaces \/ LoadParkingSpaces \/ SaveLoadedMapper

SpecConfig == InitConfig /\ [][NextConfig]_vars

\* Requests that extracted up to MaxFrames sample frames each; no
\* subtractor exists yet.
InitSessions ==
    /\ pc = "ready"
    /\ image_ok = TRUE
    /\ sample_frames \in [Sessions -> 0..MaxFrames]
    /\ frames_done = [s \in Sessions |-> 0]
    /\ session_pc = [s \in Sessions |-> "loop"]
    /\ session_handle = [s \in Sessions |-> 0]
    /\ call_handle = [s \in Sessions |-> 0]
    /\ bg_models = <<>>
    /\ YoloIdle
    /\ MapperIdle
    /\ DetectorIdle
    /\ FusionIdle
    /\ AppIdle
    /\ ConfigIdle
    /\ SharedIdle
    /\ LateIdle

\* processor.detect_cars_mog2(frame, bg_subtractor): the call of the loop.
CallMog2(s) ==
    /\ session_pc[s] = "loop"
    /\ frames_done[s] < sample_frames[s]
    /\ call_handle' = [call_handle EXCEPT ![s] = session_handle[s]]
    /\ session_pc' = [session_pc EXCEPT ![s] = "called"]
    /\ UNCHANGED <<pc, image_ok, sample_frames, frames_done, session_handle, bg_models,
                   yolo_vars, mapper_vars, detector_vars, fusion_vars, app_vars,
                   config_vars,
                   shared_vars, late_vars>>

\* if bg_subtractor is None: bg_subtractor = cv2.createBackgroundSubtractorMOG2(...)
Mog2Initialize(s) ==
    /\ session_pc[s] = "called"
    /\ IF call_handle[s] = 0
       THEN LET new == createBackgroundSubtractorMOG2(bg_models)
            IN  /\ call_handle' = [call_handle EXCEPT ![s] = new]
                /\ bg_models' = IF new > Len(bg_models)
                                THEN Append(bg_models, CreatedBy(s))
                                ELSE bg_models
       ELSE UNCHANGED <<call_handle, bg_models>>
    /\ session_pc' = [session_pc EXCEPT ![s] = "initialized"]
    /\ UNCHANGED <<pc, image_ok, sample_frames, frames_done, session_handle,
                   yolo_vars, mapper_vars, detector_vars, fusion_vars, app_vars,
                   config_vars,
                   shared_vars, late_vars>>

\* fg_mask = bg_subtractor.apply(frame) ... return detected_cars, bg_subtractor
\* and the assignment of the loop.
Mog2ApplyAndReturn(s) ==
    /\ session_pc[s] = "initialized"
    /\ bg_models' = [bg_models EXCEPT ![call_handle[s]] = Applied(@, s)]
    /\ session_handle' = [session_handle EXCEPT ![s] = call_handle[s]]
    /\ frames_done' = [frames_done EXCEPT ![s] = @ + 1]
    /\ session_pc' = [session_pc EXCEPT ![s] = "loop"]
    /\ UNCHANGED <<pc, image_ok, sample_frames, call_handle,
                   yolo_vars, mapper_vars, detector_vars, fusion_vars, app_vars,
                   config_vars,
                   shared_vars, late_vars>>

NextSessions ==
    \E s \in Sessions : CallMog2(s) \/ Mog2Initialize(s) \/ Mog2ApplyAndReturn(s)

SpecSessions == InitSessions /\ [][NextSessions]_vars

\* The shared detector after __init__, no run and no save yet.
InitShared ==
    /\ pc = "ready"
    /\ image_ok = TRUE
    /\ spot_definitions = DefaultSpots
    /\ saves_done = 0
    /\ run_pc = "start"
    /\ run_spots = <<>>
    /\ run_results = <<>>
    /\ run_report = NoReport
    /\ YoloIdle
    /\ MapperIdle
    /\ DetectorIdle
    /\ FusionIdle
    /\ AppIdle
    /\ ConfigIdle
    /\ SessionsIdle
    /\ LateIdle

\* save_spot_definitions(lot_id, spots): self.spot_definitions[lot_id] = spots
SaveSpotDefinitions ==
    /\ saves_done < MaxSaves
    /\ \E n \in 0..MaxSpots : spot_definitions' = SpotsOfSave(saves_done + 1, n)
    /\ saves_done' = saves_done + 1
    /\ UNCHANGED <<pc, image_ok, run_pc, run_spots, run_results, run_report,
                   yolo_vars, mapper_vars, detector_vars, fusion_vars, app_vars,
                   config_vars, session_vars, late_vars>>

\* spots = self.spot_definitions.get(lot_id, self._get_default_spots())
RunGetSpots ==
    /\ run_pc = "start"
    /\ run_spots' = spot_definitions
    /\ run_pc' = "analyzing"
    /\ UNCHANGED <<pc, image_ok, spot_definitions, saves_done, run_results, run_report,
                   yolo_vars, mapper_vars, detector_vars, fusion_vars, app_vars,
                   config_vars, session_vars, late_vars>>

\* One turn of the loop of _analyze_spots: for spot in spots.
RunAnalyzeSpot ==
    /\ run_pc = "analyzing"
    /\ Len(run_results) < Len(run_spots)
    /\ \E occupied \in BOOLEAN :
           run_results' = Append(run_results,
                                 AnalyzedSpot(run_spots[Len(run_results) + 1], occupied))
    /\ UNCHANGED <<pc, image_ok, spot_definitions, saves_done, run_pc, run_spots,
                   run_report,
                   yolo_vars, mapper_vars, detector_vars, fusion_vars, app_vars,
                   config_vars, session_vars, late_vars>>

\* The summary statistics and the return of detect_parking_spaces.
RunReturn ==
    /\ run_pc = "analyzing"
    /\ Len(run_results) = Len(run_spots)
    /\ LET total_spots == total_spots_of(run_spots, spot_definitions)
           occupied_spots == Cardinality({i \in 1..Len(run_results) :
                                             run_results[i].occupied})
       IN  run_report' = [total_spots |-> total_spots,
                          occupied_spots |-> occupied_spots,
                          available_spots |-> total_spots - occupied_spots,
                          spots |-> run_results]
    /\ run_pc' = "returned"
    /\ UNCHANGED <<pc, image_ok, spot_definitions, saves_done, run_spots, run_results,
                   yolo_vars, mapper_vars, detector_vars, fusion_vars, app_vars,
                   config_vars, session_vars, late_vars>>

NextShared == SaveSpotDefinitions \/ RunGetSpots \/ RunAnalyzeSpot \/ RunReturn

SpecShared == InitShared /\ [][NextShared]_vars

\* One call of either report function: detect_parking_spaces on a spot list,
\* or analyze_parking_occupancy on a space map.
InitReports == InitDetector \/ InitMapper

NextReports == DetectParkingSpaces \/ AnalyzeParkingOccupancy

SpecReports == InitReports /\ [][NextReports]_vars

\* One call of define_parking_spaces_manual on a new mapper.
InitLayout ==
    /\ pc = "ready"
    /\ image_ok = TRUE
    /\ video_width \in FrameWidthInputs
    /\ video_height \in FrameHeightInputs
    /\ CoreIdle
    /\ LateIdleBut("layout")

DefineParkingSpacesManual ==
    /\ pc = "ready"
    /\ parking_spaces' = define_parking_spaces_manual(video_width, video_height)
    /\ pc' = "done"
    /\ UNCHANGED <<image_ok, video_width, video_height, detected_cars, mapper_report,
                   yolo_vars, detector_vars, fusion_vars, app_vars, config_vars,
                   session_vars, shared_vars>>
    /\ LateUnchangedBut("layout")

NextLayout == DefineParkingSpacesManual

SpecLayout == InitLayout /\ [][NextLayout]_vars

\* One call of detect_cars_mog2 on a frame whose mask has the contours drawn,
\* with no subtractor or the one of an earlier call.
InitMog2 ==
    /\ pc = "ready"
    /\ image_ok = TRUE
    /\ contours \in SeqsUpTo(Contours, MaxContours)
    /\ bg_subtractor \in {NoHandle, EarlierHandle}
    /\ yolo_status = "ok"
    /\ frame_model_cars = <<>>
    /\ frame_contour_cars = <<>>
    /\ frame_mog2_cars = <<>>
    /\ hybrid_result = NoReport
    /\ YoloIdle /\ MapperIdle /\ DetectorIdle
    /\ AppIdle /\ ConfigIdle /\ SessionsIdle /\ SharedIdle
    /\ LateIdleBut("contours")

DetectCarsMog2 ==
    /\ pc = "ready"
    /\ bg_subtractor' = Mog2Handle(bg_subtractor)
    /\ frame_mog2_cars' = detect_cars_mog2(contours)
    /\ pc' = "done"
    /\ UNCHANGED <<image_ok, contours, yolo_status, frame_model_cars, frame_contour_cars,
                   hybrid_result, yolo_vars, mapper_vars, detector_vars, app_vars,
                   config_vars, session_vars, shared_vars>>
    /\ LateUnchangedBut("contours")

NextMog2 == DetectCarsMog2

SpecMog2 == InitMog2 /\ [][NextMog2]_vars

\* Requests served by the threads of the server, each for a video and a
\* frame number.
InitTempFrame ==
    /\ pc = "ready"
    /\ image_ok = TRUE
    /\ frame_pc = [c \in Calls |-> "start"]
    /\ frame_request \in [Calls -> VideoPaths \X FrameNumbers]
    /\ frame = [c \in Calls |-> NoFrame]
    /\ temp_frame_file = [image |-> NoFrame, writers |-> {}]
    /\ analysis_results = [c \in Calls |-> NoFrame]
    /\ annotated_image = [c \in Calls |-> NoFrame]
    /\ CoreIdle
    /\ LateIdleBut("temp_frame")

\* Lines 14-24: ret, frame = cap.read()
ReadFrame(c) ==
    /\ frame_pc[c] = "start"
    /\ frame' = [frame EXCEPT ![c] = extract_frame(frame_request[c][1],
                                                   frame_request[c][2])]
    /\ frame_pc' = [frame_pc EXCEPT ![c] = "extracted"]
    /\ UNCHANGED <<pc, image_ok, frame_request, temp_frame_file, analysis_results,
                   annotated_image, core_vars>>
    /\ LateUnchangedBut("temp_frame")

\* Line 27: cv2.imwrite(temp_image_path, frame) opens the file for writing ...
ImwriteBegin(c) ==
    /\ frame_pc[c] = "extracted"
    /\ temp_frame_file' = [temp_frame_file EXCEPT !.writers = @ \cup {c}]
    /\ frame_pc' = [frame_pc EXCEPT ![c] = "writing"]
    /\ UNCHANGED <<pc, image_ok, frame_request, frame, analysis_results,
                   annotated_image, core_vars>>
    /\ LateUnchangedBut("temp_frame")

\* ... and closes it with the encoded frame in it.
ImwriteEnd(c) ==
    /\ frame_pc[c] = "writing"
    /\ temp_frame_file' = [image |-> frame[c], writers |-> temp_frame_file.writers \ {c}]
    /\ frame_pc' = [frame_pc EXCEPT ![c] = "written"]
    /\ UNCHANGED <<pc, image_ok, frame_request, frame, analysis_results,
                   annotated_image, core_vars>>
    /\ LateUnchangedBut("temp_frame")

\* Line 29: self.detector.analyze_parking_lot(temp_image_path, ...) reads the
\* path and raises ValueError when the image is None.
AnalyzeTempFrame(c) ==
    /\ frame_pc[c] = "written"
    /\ \E image \in imread(temp_frame_file) :
           IF image = NoFrame
           THEN /\ frame_pc' = [frame_pc EXCEPT ![c] = "raised"]
                /\ UNCHANGED analysis_results
           ELSE /\ frame_pc' = [frame_pc EXCEPT ![c] = "analyzed"]
                /\ analysis_results' = [analysis_results EXCEPT ![c] = image]
    /\ UNCHANGED <<pc, image_ok, frame_request, frame, temp_frame_file,
                   annotated_image, core_vars>>
    /\ LateUnchangedBut("temp_frame")

\* Lines 31-53: self.detector.annotate_image(temp_image_path, ...) reads the
\* path again; the call returns the analysis and the annotated image.
AnnotateTempFrame(c) ==
    /\ frame_pc[c] = "analyzed"
    /\ \E image \in imread(temp_frame_file) :
           IF image = NoFrame
           THEN /\ frame_pc' = [frame_pc EXCEPT ![c] = "raised"]
                /\ UNCHANGED annotated_image
           ELSE /\ frame_pc' = [frame_pc EXCEPT ![c] = "returned"]
                /\ annotated_image' = [annotated_image EXCEPT ![c] = image]
    /\ UNCHANGED <<pc, image_ok, frame_request, frame, temp_frame_file,
                   analysis_results, core_vars>>
    /\ LateUnchangedBut("temp_frame")

NextTempFrame ==
    \E c \in Calls :
        \/ ReadFrame(c)
        \/ ImwriteBegin(c)
        \/ ImwriteEnd(c)
        \/ AnalyzeTempFrame(c)
        \/ AnnotateTempFrame(c)

SpecTempFrame == InitTempFrame /\ [][NextTempFrame]_vars

\* The detector a module constructs at import, before any file is written.
InitStore ==
    /\ pc = "ready"
    /\ image_ok = TRUE
    /\ spot_files = [lot_id \in Lots |-> NoFile]
    /\ detectors = <<NewDetector(spot_files)>>
    /\ last_saved = [lot_id \in Lots |-> NoEntry]
    /\ entitled = [lot_id \in Lots |-> {}]
    /\ detect_call = NoReport
    /\ CoreIdle
    /\ LateIdleBut("store")

\* ParkingDetector(): a detector constructed after the saves so far.
ConstructDetector ==
    /\ Len(detectors) < MaxDetectors
    /\ detectors' = Append(detectors, NewDetector(spot_files))
    /\ entitled' = [lot_id \in Lots |->
                       IF last_saved[lot_id] # NoEntry
                       THEN entitled[lot_id] \cup {Len(detectors) + 1}
                       ELSE entitled[lot_id]]
    /\ UNCHANGED <<pc, image_ok, spot_files, last_saved, detect_call, core_vars>>
    /\ LateUnchangedBut("store")

\* save_spot_definitions(lot_id, spots) on detector d
SaveSpotDefinitionsOfLot(d, lot_id, saved) ==
    /\ spot_files' = [spot_files EXCEPT ![lot_id] = json_dump(saved)]
    /\ detectors' = [detectors EXCEPT ![d][lot_id] = saved]
    /\ last_saved' = [last_saved EXCEPT ![lot_id] = saved]
    /\ entitled' = [entitled EXCEPT ![lot_id] = {d}]
    /\ UNCHANGED <<pc, image_ok, detect_call, core_vars>>
    /\ LateUnchangedBut("store")

\* detect_parking_spaces(image_path, lot_id) on detector d: the spots it
\* analyses, with what was last saved for the lot when it was called.
DetectSpacesOfLot(d, lot_id) ==
    /\ detect_call' = [detector |-> d, lot_id |-> lot_id,
                       spots |-> spots_of_lot(detectors[d], lot_id),
                       total_spots |-> Len(spots_of_lot(detectors[d], lot_id).list),
                       saved |-> last_saved[lot_id],
                       entitled |-> d \in entitled[lot_id]]
    /\ UNCHANGED <<pc, image_ok, spot_files, detectors, last_saved, entitled, core_vars>>
    /\ LateUnchangedBut("store")

NextStore ==
    \/ ConstructDetector
    \/ \E d \in 1..Len(detectors), lot_id \in Lots, saved \in SavedSpotLists :
           SaveSpotDefinitionsOfLot(d, lot_id, saved)
    \/ \E d \in 1..Len(detectors), lot_id \in Lots : DetectSpacesOfLot(d, lot_id)

SpecStore == InitStore /\ [][NextStore]_vars

\* A collection created empty.
InitCollection ==
    /\ pc = "ready"
    /\ image_ok = TRUE
    /\ storage = <<>>
    /\ inserted_ids = <<>>
    /\ CoreIdle
    /\ LateIdleBut("collection")

InsertOne ==
    /\ Len(storage) < MaxDocuments
    /\ \E name \in DocumentNames :
           /\ storage' = insert_one(storage, name)
           /\ inserted_ids' = <<generated_id(storage)>>
    /\ UNCHANGED <<pc, image_ok, core_vars>>
    /\ LateUnchangedBut("collection")

InsertMany ==
    /\ \E names \in SeqsUpTo(DocumentNames, MaxBatch) :
           /\ Len(storage) + Len(names) <= MaxDocuments
           /\ storage' = insert_many(storage, names)
           /\ inserted_ids' = [k \in 1..Len(names) |-> storage'[Len(storage) + k]._id]
    /\ UNCHANGED <<pc, image_ok, core_vars>>
    /\ LateUnchangedBut("collection")

DeleteOne ==
    /\ \E query \in Queries : storage' = delete_one(storage, query)
    /\ inserted_ids' = <<>>
    /\ UNCHANGED <<pc, image_ok, core_vars>>
    /\ LateUnchangedBut("collection")

NextCollection == InsertOne \/ InsertMany \/ DeleteOne

SpecCollection == InitCollection /\ [][NextCollection]_vars

(***************************************************************************)
(* Geometry the properties are stated in: a box is the set of unit cells   *)
(* it covers.                                                              *)
(***************************************************************************)
CellsXYXY(b) == {c \in (b[1]..(b[3] - 1)) \X (b[2]..(b[4] - 1)) : TRUE}

CellsXYWH(b) == {c \in (b[1]..(b[1] + b[3] - 1)) \X (b[2]..(b[2] + b[4] - 1)) : TRUE}

\* The detection box contains the space box, as rectangles.
ContainsXYWH(car, space) ==
    /\ car[1] <= space[1] /\ space[1] + space[3] <= car[1] + car[3]
    /\ car[2] <= space[2] /\ space[2] + space[4] <= car[2] + car[4]

\* Number of entries of list whose key field equals id.
CountId(list, id) == Cardinality({k \in 1..Len(list) : list[k].id = id})

YoloDone == pc = "done" /\ "total_spaces" \in DOMAIN yolo_report

MapperDone == pc = "done" /\ "total_spaces" \in DOMAIN mapper_report

(***************************************************************************)
(* C1.  analyze_parking_lot gives every space exactly one status, decided  *)
(* by its maximum overlap v, which lies in [0,1]: occupied iff v > 0.6,    *)
(* partially free iff 0.2 < v <= 0.6, free iff v <= 0.2; the space is in   *)
(* exactly one of the three result lists, the one of its status.           *)
(***************************************************************************)
C1_ThreeStatePartition ==
    YoloDone =>
        \A i \in 1..Len(yolo_spaces) :
            LET v == _calculate_max_overlap_with_cars(yolo_spaces[i].bbox, yolo_cars)
                occ == CountId(yolo_report.occupied_spaces, i)
                part == CountId(yolo_report.partially_free_spaces, i)
                free == CountId(yolo_report.free_spaces, i)
            IN  /\ 0 <= v.n /\ v.n <= v.d
                /\ occ + part + free = 1
                /\ (occ = 1) <=> (10 * v.n > 6 * v.d)
                /\ (part = 1) <=> (10 * v.n > 2 * v.d /\ 10 * v.n <= 6 * v.d)
                /\ (free = 1) <=> (10 * v.n <= 2 * v.d)
                /\ \A k \in 1..Len(yolo_report.occupied_spaces) :
                       yolo_report.occupied_spaces[k].status = "occupied"
                /\ \A k \in 1..Len(yolo_report.partially_free_spaces) :
                       yolo_report.partially_free_spaces[k].status = "partially_free"
                /\ \A k \in 1..Len(yolo_report.free_spaces) :
                       yolo_report.free_spaces[k].status = "free"

\* A report with a space at v = 0.6 exactly (partially free) and a space at
\* v = 0.2 exactly (free).
C1_Witness ==
    /\ YoloDone
    /\ \E i \in 1..Len(yolo_spaces) :
           LET v == _calculate_max_overlap_with_cars(yolo_spaces[i].bbox, yolo_cars)
           IN  10 * v.n = 6 * v.d /\ CountId(yolo_report.partially_free_spaces, i) = 1
    /\ \E i \in 1..Len(yolo_spaces) :
           LET v == _calculate_max_overlap_with_cars(yolo_spaces[i].bbox, yolo_cars)
           IN  10 * v.n = 2 * v.d /\ CountId(yolo_report.free_spaces, i) = 1

(***************************************************************************)
(* C2.  The value analyze_parking_lot compares with its thresholds is, for *)
(* each space, the maximum over the detections of intersection area        *)
(* divided by the area of the space.                                       *)
(***************************************************************************)
C2_OverlapIsSpaceCoverage ==
    YoloDone =>
        \A i \in 1..Len(yolo_spaces) :
            LET space == CellsXYXY(yolo_spaces[i].bbox)
                v == _calculate_max_overlap_with_cars(yolo_spaces[i].bbox, yolo_cars)
                Covered(k) == Cardinality(space \cap CellsXYXY(yolo_cars[k].bbox))
            IN  space # {} =>
                    /\ \A k \in 1..Len(yolo_cars) : Covered(k) * v.d <= v.n * Cardinality(space)
                    /\ \/ v.n = 0
                       \/ \E k \in 1..Len(yolo_cars) : Covered(k) * v.d = v.n * Cardinality(space)

(***************************************************************************)
(* C3.  _calculate_space_overlap of a space box of positive area and a     *)
(* detection box (widths and heights not negative) lies in [0,1], is 0     *)
(* exactly when the boxes share no area and 1 exactly when the detection   *)
(* box contains the space box; for a space box of zero area it is 0.       *)
(***************************************************************************)
C3_OverlapRange ==
    MapperDone =>
        \A i \in 1..Len(parking_spaces) : \A k \in 1..Len(detected_cars) :
            LET space == parking_spaces[i].coordinates
                car == detected_cars[k].bbox
                v == _calculate_space_overlap(space, car)
            IN  /\ 0 <= v.n /\ v.n <= v.d
                /\ space[3] * space[4] = 0 => v.n = 0
                /\ space[3] * space[4] > 0 =>
                      /\ (v.n = 0) <=> (CellsXYWH(space) \cap CellsXYWH(car) = {})
                      /\ (v.n = v.d) <=> ContainsXYWH(car, space)

\* A space of positive area inside a strictly larger detection.
C3_Witness ==
    /\ MapperDone
    /\ \E i \in 1..Len(parking_spaces) : \E k \in 1..Len(detected_cars) :
           LET space == parking_spaces[i].coordinates
               car == detected_cars[k].bbox
           IN  /\ space[3] * space[4] > 0
               /\ ContainsXYWH(car, space)
               /\ car[3] * car[4] > space[3] * space[4]
               /\ mapper_report.occupied_spaces = 1

\* C3 as stated: for every space box, zero area included.
C3_Original ==
    MapperDone =>
        \A i \in 1..Len(parking_spaces) : \A k \in 1..Len(detected_cars) :
            LET space == parking_spaces[i].coordinates
                car == detected_cars[k].bbox
                v == _calculate_space_overlap(space, car)
            IN  /\ 0 <= v.n /\ v.n <= v.d
                /\ (v.n = 0) <=> (CellsXYWH(space) \cap CellsXYWH(car) = {})
                /\ (v.n = v.d) <=> ContainsXYWH(car, space)

\* The result of check_space_occupancy for space id in a mapper report.
MapperDetails == mapper_report.occupied_details \o mapper_report.available_details

\* Area of the space covered by the detection, and area of the space.
Covered(space, car) == Cardinality(CellsXYWH(space.coordinates) \cap CellsXYWH(car.bbox))

Area(space) == Cardinality(CellsXYWH(space.coordinates))

(***************************************************************************)
(* C4.  check_space_occupancy reports, for each space, overlap_ratio = the *)
(* maximum overlap ratio over all detections, and the matched detection    *)
(* is one that attains that maximum.                                       *)
(***************************************************************************)
C4_ReportsMaximumOverlap ==
    MapperDone =>
        \A j \in 1..Len(MapperDetails) :
            LET r == MapperDetails[j]
                space == parking_spaces[r.space_id]
                Overlap(k) == _calculate_space_overlap(space.coordinates, detected_cars[k].bbox)
            IN  /\ \A k \in 1..Len(detected_cars) : RatLE(Overlap(k), r.overlap_ratio)
                /\ \/ r.overlap_ratio.n = 0
                   \/ \E k \in 1..Len(detected_cars) : RatEq(Overlap(k), r.overlap_ratio)
                /\ r.detected_car # NoCar =>
                       RatEq(Overlap(r.detected_car), r.overlap_ratio)

(***************************************************************************)
(* C5.  A space reported occupied by a detection of confidence c that      *)
(* covers the fraction o of it has confidence min(1.0, c + 0.3 * o), never *)
(* above 1.0; a space that no detection overlaps is reported not occupied  *)
(* with confidence 0.8.                                                    *)
(***************************************************************************)
C5_MatcherConfidence ==
    MapperDone =>
        \A j \in 1..Len(MapperDetails) :
            LET r == MapperDetails[j]
                space == parking_spaces[r.space_id]
            IN  /\ r.occupied =>
                      /\ r.detected_car \in 1..Len(detected_cars)
                      /\ LET car == detected_cars[r.detected_car]
                             \* 10 * c.d * area * (c + 0.3 * o)
                             sum == 10 * car.confidence.n * Area(space)
                                    + 3 * Covered(space, car) * car.confidence.d
                             one == 10 * car.confidence.d * Area(space)
                         IN  /\ Area(space) > 0
                             /\ r.overlap_ratio.n * Area(space)
                                    = Covered(space, car) * r.overlap_ratio.d
                             /\ r.confidence.n * one
                                    = (IF sum < one THEN sum ELSE one) * r.confidence.d
                             /\ r.confidence.n <= r.confidence.d
                /\ (\A k \in 1..Len(detected_cars) : Covered(space, detected_cars[k]) = 0) =>
                      /\ ~r.occupied
                      /\ r.confidence.n * 10 = 8 * r.confidence.d

\* Scenario A: a detection of confidence 0.9 covers one space completely
\* (confidence 1.0) and no detection overlaps another one (confidence 0.8).
C5_Witness ==
    /\ MapperDone
    /\ \E j \in 1..Len(MapperDetails) :
           LET r == MapperDetails[j]
           IN  /\ r.occupied
               /\ detected_cars[r.detected_car].confidence = Rat(9, 10)
               /\ r.overlap_ratio.n = r.overlap_ratio.d
               /\ r.confidence.n = r.confidence.d
    /\ \E j \in 1..Len(MapperDetails) :
           LET r == MapperDetails[j]
           IN  /\ ~r.occupied
               /\ Area(parking_spaces[r.space_id]) > 0
               /\ \A k \in 1..Len(detected_cars) :
                      Covered(parking_spaces[r.space_id], detected_cars[k]) = 0
               /\ r.confidence = Rat(8, 10)

YoloRan == pc = "done" /\ "pending" \notin DOMAIN yolo_report

MapperRan == pc = "done" /\ "pending" \notin DOMAIN mapper_report

DetectorRan == pc = "done" /\ "pending" \notin DOMAIN detector_report

\* The detector returned a report of scored spots, not its error result.
DetectorDone == DetectorRan /\ "error" \notin DOMAIN detector_report

\* rate is occupied / total to 2 decimals (within 0.005), and 0 for total = 0.
RateMatches(rate, occupied, total) ==
    IF total = 0 THEN rate.n = 0
    ELSE LET diff == rate.n * total - occupied * rate.d
         IN  200 * (IF diff < 0 THEN -diff ELSE diff) <= rate.d * total

CountOccupied(results) == Cardinality({i \in 1..Len(results) : results[i].occupied})

(***************************************************************************)
(* C6.  Every call of detect_parking_spaces, analyze_parking_occupancy     *)
(* and analyze_parking_lot on a readable image returns a report whose      *)
(* occupancy_rate is occupied / total to 2 decimals, and a report with     *)
(* rate 0, not an error, when there are no spaces.                         *)
(***************************************************************************)
C6_OccupancyRate ==
    /\ (DetectorRan /\ image_ok /\ \A i \in 1..Len(spots) : ~Malformed(spots[i])) =>
           /\ "error" \notin DOMAIN detector_report
           /\ "occupancy_rate" \in DOMAIN detector_report
           /\ RateMatches(Rat(detector_report.occupancy_rate, 100),
                          CountOccupied(detector_report.spots), Len(spots))
    /\ MapperRan =>
           /\ "error" \notin DOMAIN mapper_report
           /\ "occupancy_rate" \in DOMAIN mapper_report
           /\ RateMatches(mapper_report.occupancy_rate,
                          Len(mapper_report.occupied_details), Len(parking_spaces))
    /\ (YoloRan /\ image_ok) =>
           /\ "raised" \notin DOMAIN yolo_report
           /\ "occupancy_rate" \in DOMAIN yolo_report
           /\ RateMatches(yolo_report.occupancy_rate,
                          Len(yolo_report.occupied_spaces), Len(yolo_spaces))

\* The results of the regions that were scored (no early return).
Scored(r) ==
    /\ r.detection_factors # <<"invalid_coordinates">>
    /\ r.detection_factors # <<"empty_roi">>

(***************************************************************************)
(* C7.  The verdict of the static classifier is occupied iff the combined  *)
(* score is strictly greater than 0.25; a region where only the shadow     *)
(* indicator fires has score 0.25 and is not occupied.                     *)
(***************************************************************************)
C7_StrictThreshold ==
    DetectorDone =>
        \A i \in 1..Len(detector_report.spots) :
            LET r == detector_report.spots[i]
            IN  Scored(r) =>
                    /\ r.occupied <=> r.metrics.combined_score > 25
                    /\ r.detection_factors = <<"shadow_detected">> =>
                           r.metrics.combined_score = 25 /\ ~r.occupied

C7_Witness ==
    /\ DetectorDone
    /\ \E i \in 1..Len(detector_report.spots) :
           LET r == detector_report.spots[i]
           IN  /\ r.detection_factors = <<"shadow_detected">>
               /\ r.metrics.combined_score = 25
               /\ ~r.occupied

(***************************************************************************)
(* C8.  The confidence of a scored region is min(score, 1.0) when the      *)
(* verdict is occupied and 1 - score otherwise, and lies in [0,1].         *)
(***************************************************************************)
C8_ConfidenceRange ==
    DetectorDone =>
        \A i \in 1..Len(detector_report.spots) :
            LET r == detector_report.spots[i]
                score == r.metrics.combined_score
            IN  Scored(r) =>
                    /\ r.occupied =>
                           r.confidence = (IF score < 100 THEN score ELSE 100)
                    /\ ~r.occupied => r.confidence = 100 - score
                    /\ 0 <= r.confidence /\ r.confidence <= 100

\* All indicators fire: the score is 1.55 and the confidence 1.0.
C8_Witness ==
    /\ DetectorDone
    /\ \E i \in 1..Len(detector_report.spots) :
           LET r == detector_report.spots[i]
           IN  r.metrics.combined_score = 155 /\ r.occupied /\ r.confidence = 100

\* Region 2 differs from region 1 in measurement f alone, which is larger.
\* The colour variance moves with the texture deviation.
OnlyIncreased(f) ==
    /\ Len(roi_metrics) = 2
    /\ roi_metrics[2][f] > roi_metrics[1][f]
    /\ \A g \in DOMAIN roi_metrics[1] \ {f} : roi_metrics[2][g] = roi_metrics[1][g]

ScoreOf(i) == detector_report.spots[i].metrics.combined_score

(***************************************************************************)
(* C9.  With the other measurements fixed, a larger edge density, colour   *)
(* variance with texture deviation, or contour count never gives a lower   *)
(* combined score.  A larger mean brightness gives a lower score exactly   *)
(* when it moves from below 120 to 120 or more.                            *)
(***************************************************************************)
C9_MonotoneExceptBrightness ==
    DetectorDone =>
        /\ \A f \in {"edge_density", "texture_std", "contour_count"} :
               OnlyIncreased(f) => ScoreOf(2) >= ScoreOf(1)
        /\ OnlyIncreased("avg_brightness") =>
               (ScoreOf(2) < ScoreOf(1)
                    <=> (roi_metrics[1].avg_brightness < 120
                         /\ roi_metrics[2].avg_brightness >= 120))

\* A larger texture deviation (and colour variance) raises the score.
C9_Witness ==
    /\ DetectorDone
    /\ OnlyIncreased("texture_std")
    /\ ScoreOf(2) > ScoreOf(1)
    /\ Scored(detector_report.spots[1])
    /\ Scored(detector_report.spots[2])

\* C9 as stated: the mean brightness included.
C9_Original ==
    DetectorDone =>
        \A f \in {"edge_density", "texture_std", "avg_brightness", "contour_count"} :
            OnlyIncreased(f) => ScoreOf(2) >= ScoreOf(1)

(***************************************************************************)
(* C10.  A spot whose width or height is zero or negative is reported      *)
(* occupied = false, confidence 0.0, detection_factors                     *)
(* ['invalid_coordinates'], detect_parking_spaces returns its report, and  *)
(* the other spots of the report are scored.                               *)
(***************************************************************************)
C10_InvalidCoordinates ==
    (DetectorRan /\ image_ok /\ \A i \in 1..Len(spots) : ~Malformed(spots[i])) =>
        /\ "error" \notin DOMAIN detector_report
        /\ Len(detector_report.spots) = Len(spots)
        /\ \A i \in 1..Len(spots) :
               LET r == detector_report.spots[i]
                   w == spots[i].coordinates[3]
                   h == spots[i].coordinates[4]
               IN  /\ r.id = spots[i].id
                   /\ (w <= 0 \/ h <= 0) =>
                          /\ ~r.occupied
                          /\ r.confidence = 0
                          /\ r.detection_factors = <<"invalid_coordinates">>
                   /\ (w > 0 /\ h > 0) =>
                          /\ Scored(r)
                          /\ r.metrics.combined_score = Score(roi_metrics[i])

\* A report with a zero-width spot flagged and another spot scored occupied.
C10_Witness ==
    /\ DetectorDone
    /\ \E i \in 1..Len(spots) :
           /\ spots[i].coordinates[3] = 0
           /\ spots[i].coordinates[4] > 0
           /\ detector_report.spots[i].detection_factors = <<"invalid_coordinates">>
    /\ \E i \in 1..Len(spots) :
           /\ Scored(detector_report.spots[i])
           /\ detector_report.spots[i].occupied

(***************************************************************************)
(* C11.  detect_parking_spaces never raises: when the image cannot be      *)
(* read or a spot entry is malformed (no coordinates), it returns one      *)
(* result with an error field, total_spots = occupied_spots =              *)
(* available_spots = 0, occupancy_rate = 0 and an empty spots list, never  *)
(* the results of the spots that precede the malformed one.                *)
(***************************************************************************)
C11_ErrorResultIsZeroed ==
    DetectorRan =>
        /\ "raised" \notin DOMAIN detector_report
        /\ (~image_ok \/ \E i \in 1..Len(spots) : Malformed(spots[i])) =>
               /\ DOMAIN detector_report =
                      {"error", "total_spots", "occupied_spots", "available_spots",
                       "occupancy_rate", "spots"}
               /\ detector_report.total_spots = 0
               /\ detector_report.occupied_spots = 0
               /\ detector_report.available_spots = 0
               /\ detector_report.occupancy_rate = 0
               /\ detector_report.spots = <<>>

\* A readable image and a well-formed spot followed by a spot without
\* coordinates: the result is the error result, its spots list empty.
C11_Witness ==
    /\ DetectorRan
    /\ image_ok
    /\ Len(spots) = 2
    /\ ~Malformed(spots[1])
    /\ spots[1].coordinates[3] > 0 /\ spots[1].coordinates[4] > 0
    /\ Malformed(spots[2])
    /\ "error" \in DOMAIN detector_report
    /\ detector_report.spots = <<>>
    /\ detector_report.total_spots = 0

(***************************************************************************)
(* C12.  Every result of ParkingMapper.analyze_parking_occupancy and of    *)
(* YOLOParkingDetector.analyze_parking_lot, the failure cases included     *)
(* (no spaces defined, unreadable image), has the full report shape: the   *)
(* total, occupied and available counts and occupancy_rate.  Whenever an   *)
(* error field is present the counts are present and zero, and no          *)
(* exception leaves the call.                                              *)
(***************************************************************************)
C12_ReportAlwaysWellFormed ==
    /\ MapperRan =>
           /\ {"total_spaces", "occupied_spaces", "available_spaces", "occupancy_rate"}
                  \subseteq DOMAIN mapper_report
           /\ "error" \in DOMAIN mapper_report =>
                  /\ mapper_report.total_spaces = 0
                  /\ mapper_report.occupied_spaces = 0
                  /\ mapper_report.available_spaces = 0
    /\ YoloRan =>
           /\ "raised" \notin DOMAIN yolo_report
           /\ {"total_spaces", "occupied_spaces", "free_spaces", "occupancy_rate"}
                  \subseteq DOMAIN yolo_report
           /\ "error" \in DOMAIN yolo_report =>
                  /\ yolo_report.total_spaces = 0
                  /\ yolo_report.occupied_spaces = <<>>
                  /\ yolo_report.free_spaces = <<>>

FusionRan == pc = "done" /\ "cars" \in DOMAIN hybrid_result

\* The blob detections and the model detections of a fused list.
IsBlob(car) == car.method = "mog2"

IsModel(car) == car.method = "yolo"

\* IoU of two detections, counted in unit cells: shared and joint cells.
Shared(a, b) == Cardinality(CellsXYWH(a.bbox) \cap CellsXYWH(b.bbox))

Joint(a, b) == Cardinality(CellsXYWH(a.bbox) \cup CellsXYWH(b.bbox))

(***************************************************************************)
(* C13.  In the list detect_cars_hybrid returns, no blob (MOG2) detection  *)
(* and model detection that are both present have mutual IoU >= 0.3: a     *)
(* blob is kept only if its IoU with every model detection is below 0.3.   *)
(***************************************************************************)
C13_NoDuplicateExplanation ==
    FusionRan =>
        \A i, j \in 1..Len(hybrid_result.cars) :
            LET a == hybrid_result.cars[i]
                b == hybrid_result.cars[j]
            IN  (IsBlob(a) /\ IsModel(b)) => 10 * Shared(a, b) < 3 * Joint(a, b)

\* The entries of the fused list that are the detection with this id and
\* method.
FusedCopies(car) ==
    {k \in 1..Len(hybrid_result.cars) :
        /\ hybrid_result.cars[k].method = car.method
        /\ hybrid_result.cars[k].id = car.id
        /\ hybrid_result.cars[k].bbox = car.bbox}

(***************************************************************************)
(* C14.  Every model detection of confidence c in [0,1] is in the list     *)
(* detect_cars_hybrid returns with confidence min(1.0, 1.2 * c); no        *)
(* confidence of the list exceeds 1.0; a blob that is retained keeps the   *)
(* confidence it had.                                                      *)
(***************************************************************************)
C14_BoostCappedAtOne ==
    FusionRan =>
        /\ \A i \in 1..Len(frame_model_cars) :
               LET c == frame_model_cars[i].confidence
               IN  /\ FusedCopies(frame_model_cars[i]) # {}
                   /\ \A k \in FusedCopies(frame_model_cars[i]) :
                          LET f == hybrid_result.cars[k].confidence
                          IN  IF 12 * c.n < 10 * c.d
                              THEN 10 * c.d * f.n = 12 * c.n * f.d
                              ELSE f.n = f.d
        /\ \A k \in 1..Len(hybrid_result.cars) :
               hybrid_result.cars[k].confidence.n <= hybrid_result.cars[k].confidence.d
        /\ \A j \in 1..Len(frame_mog2_cars) :
               \A k \in FusedCopies(frame_mog2_cars[j]) :
                   RatEq(hybrid_result.cars[k].confidence, frame_mog2_cars[j].confidence)

\* A model detection of confidence 0.9 is reported at 1.0, one of 0.5 at
\* 0.6, next to a retained blob of confidence 0.9.
C14_Witness ==
    /\ FusionRan
    /\ yolo_status = "ok"
    /\ \E i \in 1..Len(frame_model_cars) : \E k \in FusedCopies(frame_model_cars[i]) :
           /\ frame_model_cars[i].confidence = Rat(9, 10)
           /\ RatEq(hybrid_result.cars[k].confidence, Rat(1, 1))
    /\ \E i \in 1..Len(frame_model_cars) : \E k \in FusedCopies(frame_model_cars[i]) :
           /\ frame_model_cars[i].confidence = Rat(1, 2)
           /\ RatEq(hybrid_result.cars[k].confidence, Rat(6, 10))
    /\ \E j \in 1..Len(frame_mog2_cars) : \E k \in FusedCopies(frame_mog2_cars[j]) :
           RatEq(hybrid_result.cars[k].confidence, Rat(9, 10))

\* The detections detect_cars_hybrid gave priority to for this frame.
PriorityCars == IF yolo_status = "ok" THEN frame_model_cars ELSE frame_contour_cars

(***************************************************************************)
(* C15.  The list detect_cars_hybrid returns is ordered by confidence,     *)
(* non-increasing, and is a permutation of all model detections together   *)
(* with exactly the retained blob detections: every entry is a detection   *)
(* of the frame, every model detection is there once, a blob at most once, *)
(* a blob whose IoU with every model detection is below 0.3 is there and a *)
(* blob with an IoU above 0.3 is not.                                      *)
(***************************************************************************)
C15_SortedPermutation ==
    FusionRan =>
        LET out == hybrid_result.cars
        IN  /\ \A k \in 1..(Len(out) - 1) : RatLE(out[k + 1].confidence, out[k].confidence)
            /\ \A k \in 1..Len(out) :
                   \/ \E i \in 1..Len(PriorityCars) : k \in FusedCopies(PriorityCars[i])
                   \/ \E j \in 1..Len(frame_mog2_cars) : k \in FusedCopies(frame_mog2_cars[j])
            /\ \A i \in 1..Len(PriorityCars) :
                   Cardinality(FusedCopies(PriorityCars[i])) = 1
            /\ \A j \in 1..Len(frame_mog2_cars) :
                   LET blob == frame_mog2_cars[j]
                       copies == Cardinality(FusedCopies(blob))
                   IN  /\ copies <= 1
                       /\ (\A i \in 1..Len(PriorityCars) :
                               10 * Shared(blob, PriorityCars[i])
                                   < 3 * Joint(blob, PriorityCars[i])) => copies = 1
                       /\ (\E i \in 1..Len(PriorityCars) :
                               10 * Shared(blob, PriorityCars[i])
                                   > 3 * Joint(blob, PriorityCars[i])) => copies = 0

\* Two model detections listed in ascending order of confidence, a blob
\* that is retained between them after the sort, and a blob that is dropped.
C15_Witness ==
    /\ FusionRan
    /\ yolo_status = "ok"
    /\ Len(frame_model_cars) = 2
    /\ RatGT(frame_model_cars[2].confidence, frame_model_cars[1].confidence)
    /\ Len(frame_mog2_cars) = 2
    /\ Len(hybrid_result.cars) = 3
    /\ hybrid_result.cars[1].id = 2 /\ IsModel(hybrid_result.cars[1])
    /\ IsBlob(hybrid_result.cars[2])
    /\ hybrid_result.cars[3].id = 1 /\ IsModel(hybrid_result.cars[3])

(***************************************************************************)
(* C16.  When the external detector is unavailable or raises,              *)
(* detect_cars_hybrid does not raise and returns exactly the MOG2          *)
(* detections of the frame, none from another source and none boosted,     *)
(* together with the updated background-model handle.                      *)
(***************************************************************************)
C16_DegradesToBlobsOnly ==
    (pc = "done" /\ yolo_status # "ok") =>
        /\ FusionRan
        /\ Len(hybrid_result.cars) = Len(frame_mog2_cars)
        /\ \A k \in 1..Len(hybrid_result.cars) : IsBlob(hybrid_result.cars[k])
        /\ \A j \in 1..Len(frame_mog2_cars) :
               /\ Cardinality(FusedCopies(frame_mog2_cars[j])) = 1
               /\ \A k \in FusedCopies(frame_mog2_cars[j]) :
                      RatEq(hybrid_result.cars[k].confidence, frame_mog2_cars[j].confidence)
        /\ hybrid_result.bg_subtractor # NoHandle
        /\ hybrid_result.bg_subtractor.applied = bg_subtractor.applied + 1
        /\ bg_subtractor # NoHandle => hybrid_result.bg_subtractor.id = bg_subtractor.id

AppRan == pc = "done" /\ "response" \in DOMAIN app_result

\* What a result says about how it was obtained: the method that was
\* logged and the fields of the response next to the counts.
Metadata(result) ==
    [method |-> result.logged.detection_data.method,
     fields |-> DOMAIN result.response \ {"car_count", "parking_analysis"}]

(***************************************************************************)
(* C17.  Whenever the external detector failed or was unavailable during   *)
(* an analysis, the request still succeeds and the report carries a        *)
(* method or metadata value that no run in which the detector succeeded    *)
(* carries.                                                                *)
(***************************************************************************)
C17_DegradedRunIsObservable ==
    (AppRan /\ video_exists /\ processor_outcome # "ok" /\ lot_total_spaces > 0) =>
        /\ app_result.response.status = 200
        /\ \A results \in ProcessorResults :
               \A succeeded \in analyze_parking_video(lot_total_spaces, TRUE, "ok", results) :
                   Metadata(succeeded) # Metadata(app_result)

ConfigLoaded == pc \in {"loaded", "done"} /\ "returned" \in DOMAIN load_result

CreatedOf(s) == {i \in 1..Len(bg_models) : bg_models[i].created_by = s}

(***************************************************************************)
(* C19.  Under any interleaving of concurrent sessions, the subtractor of  *)
(* a session is created by the first detect_cars_mog2 call of that         *)
(* session (handle None), every later call of the session passes and gets  *)
(* back that same handle, and no subtractor is observed into by two        *)
(* sessions: there is no shared instance.                                  *)
(***************************************************************************)
C19_HandleOwnedBySession ==
    /\ \A i \in 1..Len(bg_models) :
           /\ bg_models[i].observers \subseteq {bg_models[i].created_by}
           /\ bg_models[i].applied <= frames_done[bg_models[i].created_by]
    /\ \A s \in Sessions :
           /\ Cardinality(CreatedOf(s)) <= 1
           /\ frames_done[s] = 0 => session_handle[s] = 0
           /\ frames_done[s] > 0 =>
                  /\ session_handle[s] \in CreatedOf(s)
                  /\ bg_models[session_handle[s]].applied = frames_done[s]
                  /\ session_pc[s] # "loop" => call_handle[s] = session_handle[s]
           /\ (frames_done[s] = 0 /\ session_pc[s] = "initialized") =>
                  call_handle[s] \in CreatedOf(s)
           /\ \A r \in Sessions \ {s} :
                  session_handle[s] # 0 => session_handle[s] # session_handle[r]

\* Session 1 is inside its second call while session 2 has finished two
\* frames: each holds the subtractor it created, applied to its own frames.
C19_Witness ==
    /\ Len(bg_models) = 2
    /\ session_pc[1] = "initialized"
    /\ frames_done[1] = 1
    /\ frames_done[2] = 2
    /\ bg_models[session_handle[1]].created_by = 1
    /\ bg_models[session_handle[2]].created_by = 2
    /\ bg_models[session_handle[2]].observers = {2}
    /\ bg_models[session_handle[2]].applied = 2

RunReturned == run_pc = "returned" /\ "total_spots" \in DOMAIN run_report

(***************************************************************************)
(* C20.  For any interleaving of a detect_parking_spaces run with          *)
(* save_spot_definitions calls on the shared detector, the run scores one  *)
(* snapshot of the list of the lot: total_spots and every per-spot result  *)
(* of the report come from the same version of the list, the one the run   *)
(* fetched.                                                                *)
(***************************************************************************)
C20_RunScoresOneSnapshot ==
    /\ run_pc = "returned" => RunReturned
    /\ RunReturned =>
           /\ run_report.total_spots = Len(run_spots)
           /\ Len(run_report.spots) = run_report.total_spots
           /\ \A i \in 1..Len(run_report.spots) :
                  /\ run_report.spots[i].id = run_spots[i].id
                  /\ run_report.spots[i].saved_by = run_spots[i].saved_by
           /\ \A i, j \in 1..Len(run_report.spots) :
                  run_report.spots[i].saved_by = run_report.spots[j].saved_by
           /\ run_report.occupied_spots + run_report.available_spots
                  = run_report.total_spots
           /\ run_report.available_spots >= 0

\* The run fetched the two default spots and reports them, while two saves
\* have replaced the list of the detector by one of another length.
C20_Witness ==
    /\ RunReturned
    /\ saves_done = 2
    /\ spot_definitions # run_spots
    /\ Len(spot_definitions) # Len(run_spots)
    /\ run_report.total_spots = 2
    /\ run_report.spots[1].saved_by = 0
    /\ run_report.spots[2].saved_by = 0

(***************************************************************************)
(* C21.  Every non-error report of detect_parking_spaces has one result    *)
(* per spot of the list, in list order and with the spot's id; every       *)
(* non-error report of analyze_parking_occupancy has exactly one result    *)
(* for each space of the map, with that space's id.  In both, total =      *)
(* occupied + available = number of results, and occupied is the number    *)
(* of results flagged occupied.                                            *)
(***************************************************************************)
C21_OneResultPerSpace ==
    /\ DetectorDone =>
           LET r == detector_report
           IN  /\ Len(r.spots) = Len(spots)
               /\ \A i \in 1..Len(spots) : r.spots[i].id = spots[i].id
               /\ r.total_spots = r.occupied_spots + r.available_spots
               /\ r.total_spots = Len(r.spots)
               /\ r.occupied_spots = CountOccupied(r.spots)
    /\ MapperDone =>
           LET r == mapper_report
           IN  /\ \A s \in 1..Len(parking_spaces) :
                      Cardinality({k \in 1..Len(MapperDetails) :
                          MapperDetails[k].space_id = parking_spaces[s].id}) = 1
               /\ Len(MapperDetails) = Len(parking_spaces)
               /\ r.total_spaces = r.occupied_spaces + r.available_spaces
               /\ r.total_spaces = Len(MapperDetails)
               /\ r.occupied_spaces = CountOccupied(MapperDetails)

\* Two spots, the first occupied and the second not.
C21_Witness ==
    /\ DetectorDone
    /\ Len(spots) = 2
    /\ detector_report.spots[1].occupied
    /\ ~detector_report.spots[2].occupied
    /\ detector_report.occupied_spots = 1
    /\ detector_report.available_spots = 1

\* Two spaces of a map, one taken by a detection and one free.
C21_WitnessMapper ==
    /\ MapperDone
    /\ Len(parking_spaces) = 2
    /\ mapper_report.occupied_spaces = 1
    /\ mapper_report.available_spaces = 1

\* 1 for a condition that holds, 0 for one that does not.
Fires(condition) == IF condition THEN 1 ELSE 0

\* The weights of the five indicators that fire on measurements m, in 1/100.
IndicatorWeights(m) ==
    35 * Fires(m.edge_density > 200)
    + 30 * Fires(m.texture_std * m.texture_std > 20000)
    + 25 * Fires(m.avg_brightness < 120)
    + 15 * Fires(m.avg_brightness > 140)
    + 30 * Fires(m.contour_count > 1)
    + 20 * Fires(m.texture_std > 150)

\* Number of the lower thresholds of edge density (0.01), colour variance
\* (100) and texture (10) that m exceeds.
WeakIndicators(m) ==
    Fires(m.edge_density > 100) + Fires(m.texture_std * m.texture_std > 10000)
    + Fires(m.texture_std > 100)

(***************************************************************************)
(* C22.  The combined score of a scored region is the sum of the weights   *)
(* of the indicators that fire (edges 0.35, colour variance 0.30,          *)
(* brightness 0.25 for shadow or 0.15 for a bright surface and never       *)
(* both, contours 0.30, texture 0.20) plus a bonus of 0.15 awarded iff at  *)
(* least two of the lower thresholds of edge density, colour variance and  *)
(* texture are exceeded; brightness has no lower threshold and does not    *)
(* count towards the bonus.                                                *)
(***************************************************************************)
C22_ScoreIsSumOfWeights ==
    DetectorDone =>
        \A i \in 1..Len(detector_report.spots) :
            LET r == detector_report.spots[i]
                m == roi_metrics[i]
                bonus == r.metrics.combined_score - IndicatorWeights(m)
            IN  Scored(r) =>
                    /\ bonus \in {0, 15}
                    /\ bonus = 15 <=> WeakIndicators(m) >= 2
                    /\ ~(m.avg_brightness < 120 /\ m.avg_brightness > 140)

\* A region that exceeds the lower thresholds only: its score is the bonus.
C22_Witness ==
    /\ DetectorDone
    /\ \E i \in 1..Len(detector_report.spots) :
           /\ roi_metrics[i].edge_density = 150
           /\ roi_metrics[i].texture_std = 120
           /\ detector_report.spots[i].metrics.combined_score = 15
           /\ detector_report.spots[i].detection_factors = <<"multiple_weak_signals">>

\* The statement with brightness among the weak indicators: the bonus is
\* awarded iff at least two of edge density, colour variance, brightness and
\* texture co-occur in their weak versions (for brightness, its band).
C22_Original ==
    DetectorDone =>
        \A i \in 1..Len(detector_report.spots) :
            LET r == detector_report.spots[i]
                m == roi_metrics[i]
                bonus == r.metrics.combined_score - IndicatorWeights(m)
                weak == WeakIndicators(m)
                        + Fires(m.avg_brightness < 120 \/ m.avg_brightness > 140)
            IN  Scored(r) => (bonus = 15 <=> weak >= 2)

\* The pixels of the frame.
FrameCells == (0..(FrameWidth - 1)) \X (0..(FrameHeight - 1))

(***************************************************************************)
(* C23.  For a spot with integer coordinates, the region that              *)
(* _analyze_single_spot scores is the intersection of the spot's box with  *)
(* the frame, and a spot whose box does not meet the frame is flagged      *)
(* (invalid_coordinates or empty_roi) and reported not occupied with       *)
(* confidence 0.                                                           *)
(***************************************************************************)
C23_ScoresIntersectionWithFrame ==
    DetectorDone =>
        \A i \in 1..Len(spots) :
            LET r == detector_report.spots[i]
                box == CellsXYWH(spots[i].coordinates) \cap FrameCells
            IN  /\ Scored(r) => RoiCells(ClippedRegion(spots[i].coordinates)) = box
                /\ box = {} =>
                       /\ ~Scored(r)
                       /\ ~r.occupied
                       /\ r.confidence = 0

(***************************************************************************)
(* C24.  Every space that define_parking_spaces_manual(video_width,        *)
(* video_height) produces, for positive frame dimensions, has positive     *)
(* area and lies within the frame: 0 <= x, 0 <= y, x + w <= video_width    *)
(* and y + h <= video_height.                                              *)
(***************************************************************************)
C24_SpacesInsideFrame ==
    pc = "done" =>
        \A i \in 1..Len(parking_spaces) :
            LET c == parking_spaces[i].coordinates
            IN  /\ c[3] > 0 /\ c[4] > 0
                /\ 0 <= c[1] /\ 0 <= c[2]
                /\ c[1] + c[3] <= video_width
                /\ c[2] + c[4] <= video_height

(***************************************************************************)
(* C25.  Every detection that detect_cars_mog2 emits comes from a contour  *)
(* of the mask whose area lies in [800, 15000], whose bounding rectangle   *)
(* has an aspect ratio in [0.3, 5.0] and is at least 25 wide and 15 high,  *)
(* and carries a confidence within [0.3, 0.9].                             *)
(***************************************************************************)
C25_Mog2DetectionsAreFiltered ==
    pc = "done" =>
        \A j \in 1..Len(frame_mog2_cars) :
            LET d == frame_mog2_cars[j]
            IN  /\ \E k \in 1..Len(contours) :
                       LET c == contours[k]
                           w == c.bbox[3]
                           h == c.bbox[4]
                       IN  /\ d.id = <<"mog2_car", k - 1>>
                           /\ d.bbox = c.bbox
                           /\ 800 <= c.area /\ c.area <= 15000
                           /\ 3 * h <= 10 * w /\ w <= 5 * h
                           /\ w >= 25 /\ h >= 15
                /\ RatLE(Rat(3, 10), d.confidence)
                /\ RatLE(d.confidence, Rat(9, 10))

\* A contour next to a rejected one is emitted, with a confidence the clamp
\* lowered to 0.9; another is emitted with a confidence the clamp left alone.
C25_Witness ==
    /\ pc = "done"
    /\ Len(contours) = 2
    /\ Len(frame_mog2_cars) = 2
    /\ contours[1].area = 14999
    /\ contours[1].hull_area = 14999
    /\ frame_mog2_cars[1].confidence = Rat(9, 10)
    /\ RatGT(frame_mog2_cars[2].confidence, Rat(3, 10))
    /\ RatGT(Rat(9, 10), frame_mog2_cars[2].confidence)

(***************************************************************************)
(* C26.  For integer coordinates on a non-empty frame, whenever the        *)
(* validity check passes (w > 0 and h > 0 after clipping), the extracted   *)
(* region is non-empty and lies within the frame; no result is flagged     *)
(* 'empty_roi'.                                                            *)
(***************************************************************************)
C26_ValidRegionIsNonEmpty ==
    DetectorDone =>
        \A i \in 1..Len(spots) :
            LET region == ClippedRegion(spots[i].coordinates)
                r == detector_report.spots[i]
            IN  /\ r.detection_factors # <<"empty_roi">>
                /\ (region[3] > 0 /\ region[4] > 0) =>
                       /\ Scored(r)
                       /\ RoiCells(region) # {}
                       /\ 0 <= region[1] /\ region[1] + region[3] <= FrameWidth
                       /\ 0 <= region[2] /\ region[2] + region[4] <= FrameHeight
                       /\ Cardinality(RoiCells(region)) = region[3] * region[4]

\* A spot wider than the frame is scored on the full width of the frame.
C26_Witness ==
    /\ DetectorDone
    /\ \E i \in 1..Len(spots) :
           /\ spots[i].coordinates = <<0, 0, FrameWidth + 1, 2>>
           /\ ClippedRegion(spots[i].coordinates) = <<0, 0, FrameWidth, 2>>
           /\ Scored(detector_report.spots[i])

(***************************************************************************)
(* C27.  When calls of analyze_video_frame run concurrently on different   *)
(* videos or frame numbers, the analysis and the annotated image each      *)
(* call returns are computed from the frame that call extracted, never     *)
(* from a frame another call wrote.                                        *)
(***************************************************************************)
C27_CallAnalysesOwnFrame ==
    \A c \in Calls :
        (\A o \in Calls \ {c} : frame_request[o] # frame_request[c]) =>
            /\ frame_pc[c] \in {"analyzed", "returned"} => analysis_results[c] = frame[c]
            /\ frame_pc[c] = "returned" => annotated_image[c] = frame[c]

(***************************************************************************)
(* C28.  The definitions saved with save_spot_definitions(L, S) are the    *)
(* spaces every later detect_parking_spaces(image, L) analyses until the   *)
(* next save for L, on the detector that saved them and on a detector      *)
(* constructed after the save; a lot with no saved definition is analysed  *)
(* with the default spots.                                                 *)
(***************************************************************************)
C28_SavedDefinitionsAreAnalysed ==
    "spots" \in DOMAIN detect_call =>
        /\ (detect_call.saved # NoEntry /\ detect_call.entitled) =>
               detect_call.spots = detect_call.saved
        /\ detect_call.saved = NoEntry => detect_call.spots = default_spots

(***************************************************************************)
(* C29.  Every availability log the analyze-video endpoint writes has      *)
(* 0 <= occupied_spaces, 0 <= available_spaces and occupied_spaces +       *)
(* available_spaces = total_spaces, whether the detector succeeded, the    *)
(* video was missing or the detector failed; a request that ends in an     *)
(* error response writes no log.                                           *)
(***************************************************************************)
C29_LogCountsAddUp ==
    AppRan =>
        /\ "logged" \in DOMAIN app_result =>
               LET log == app_result.logged
               IN  /\ 0 <= log.occupied_spaces
                   /\ 0 <= log.available_spaces
                   /\ log.occupied_spaces + log.available_spaces = log.total_spaces
        /\ app_result.response.status # 200 => "logged" \notin DOMAIN app_result

(***************************************************************************)
(* C30.  After any sequence of insert_one, insert_many and delete_one on   *)
(* an InMemoryCollection that starts empty and receives documents without  *)
(* an _id, no two stored documents have the same generated _id.            *)
(***************************************************************************)
C30_GeneratedIdsAreUnique ==
    \A i, j \in 1..Len(storage) : i # j => storage[i]._id # storage[j]._id

====
